---- MODULE Spec2Model ----
(***************************************************************************)
(* Model of the SourceOracle retrieval engine.                             *)
(*                                                                         *)
(* Part 1: the retrieval orchestrator, in its two copies:                  *)
(*   mode = "repo"  src/src/downloader/mod.rs  download_from_repo          *)
(*   mode = "game"  tauri-app/src-tauri/src/commands.rs  download_game     *)
(* Every network call, and every local I/O call that can fail, is one step *)
(* whose outcome is chosen by the environment.                             *)
(* Part 2: the archive disperser, process_downloaded_zip.                  *)
(* Part 3: the two editors of the local .lua file, update_game_files and   *)
(*         sync_dlcs_in_lua.                                               *)
(* Part 4: two runs of download_from_repo fed the same answers.            *)
(* Part 5: the callers of download_from_repo, run_cli_mode and             *)
(*         OracleApp::start_download.                                      *)
(* Part 6: the threads of the GUI around the AppState mutex.               *)
(* Part 7: the paging of GameDatabase::search.                             *)
(* Each part has its own specification; the variables of the other parts   *)
(* are parked at a fixed value in it.                                      *)
(***************************************************************************)
EXTENDS Integers, Sequences, FiniteSets, TLC

\* ---------------------------------------------------------------- bounds
MaxRepos == 2
MaxFiles == 2
\* members of an archive
MaxEntries == 4
\* lines of the local .lua file before the first call
MaxLines == 2
\* ids handed to sync_dlcs_in_lua
MaxDlcs == 2
\* consecutive calls of one command
MaxCalls == 2
\* threads the GUI spawns
MaxThreads == 3
\* apps a query matches, page asked for, page size
MaxTotal == 5
MaxPage == 4
MaxPerPage == 3

\* ------------------------------------------------------------- constants
\* number of mirror urls built by download_file_content
NumMirrors == 4
\* a progress line is logged every ProgressEvery files
ProgressEvery == 10

RepoTypes == {"Branch", "Encrypted", "Decrypted"}
\* what send() can yield: Ok(response) with status 200, with another 2xx
\* status, with a non-success status; or Err(e), a transport error
Sends == {"200", "204", "404", "err"}
\* revision identifiers the revision lookup can return
Shas == {"sha_a", "sha_b"}
\* relative paths a tree listing can contain
Paths == 1..MaxFiles
\* mirror hosts in the order of the urls vector
Mirrors == <<"gcore.jsdelivr.net", "fastly.jsdelivr.net", "cdn.jsdelivr.net", "raw.githubusercontent.com">>

VARIABLES
    mode,              \* which copy of the orchestrator runs
    repo_info,         \* the repositories in the order the caller inserted them
    order,             \* the order in which the HashMap iterator yields them
    serves,            \* per repository: its first endpoint answers 200 with a
                       \* body that can be read (and, for a lookup, parsed)
    idx,               \* position of the for loop in order
    pc,                \* position of the run in the function body
    result,            \* the DownloadResult: [ok |-> b] or [err |-> kind]
    rootExists,        \* output_dir exists
    zip,               \* the archive file: "absent", "partial", "full"
    tempDirs,          \* temp directories created, by their Encrypted flag
    files,             \* files in the temp directories
    zip_content,       \* what download_branch_zip handed back
    sha,               \* branch_response.commit.sha of the current entry
    files_to_download, \* blob paths of the current entry
    i,                 \* index of the file loop (0-based, as enumerate())
    files_written,     \* counter of the current entry
    mirror,            \* index of the url being probed (1-based)
    content,           \* mirror whose payload download_file_content returned
    probes,            \* mirrors probed, with outcome, for the current file
    fetched,           \* return of the last download_file_content call
    contacted,         \* repositories for which a network call was issued
    log,               \* the lines handed to the logger since the current
                       \* repository was started
    tree_url,          \* the repository and revision of the tree url requested
    tree_response,     \* the tree listing, until the blob filter has read it
    \* ---- process_downloaded_zip
    dpc,               \* position in process_downloaded_zip
    dresult,           \* its Result
    archive_len,       \* archive.len()
    extract_i,         \* index of the extraction loop
    scratch_exists,    \* temp_dir exists
    scratch_dirs,      \* directories of the archive created under temp_dir
    scratch_files,     \* files under temp_dir
    dest_dirs,         \* target directories that exist
    dest_files,        \* files in the target directories
    walked,            \* files the walk has been through
    lua_count,
    manifest_count,
    bin_count,
    \* ---- update_game_files, sync_dlcs_in_lua
    lua,               \* content of the local .lua file
    upc,               \* position in the command
    lresult,           \* Result of the last call
    ncalls,            \* calls that have returned
    writes,            \* fs::write calls on the .lua file
    new_bindings,      \* manifest_map: the bindings in the archive served
    updated_count,
    appended_count,
    main_app_id,
    dlc_ids_to_set,
    \* ---- two runs of download_from_repo
    runA,
    runB,
    \* ---- run_cli_mode, OracleApp::start_download
    front,             \* the caller of download_from_repo: "cli" or "gui"
    cpc,               \* position of the caller
    dispersals,        \* calls of AppState::process_downloaded_zip so far
    \* ---- the GUI threads
    holder,            \* the thread that holds the guard of the AppState mutex
    tpc,               \* position of each thread
    \* ---- GameDatabase::search
    spc,               \* position of the call
    query_empty,       \* query.trim().is_empty()
    matching,          \* matching_apps.len(), the total of the results
    page,
    per_page,
    overflow_checks,   \* the build panics on arithmetic overflow
    sresult            \* the SearchResults returned, or the panic

orch_vars == <<mode, repo_info, order, serves, idx, pc, result, rootExists, zip,
               tempDirs, files, zip_content, sha, files_to_download, i,
               files_written, mirror, content, probes, fetched, contacted, log,
               tree_url, tree_response>>
disperse_vars == <<dpc, dresult, archive_len, extract_i, scratch_exists,
                   scratch_dirs, scratch_files, dest_dirs, dest_files, walked,
                   lua_count, manifest_count, bin_count>>
lua_vars == <<lua, upc, lresult, ncalls, writes, new_bindings,
              updated_count, appended_count, main_app_id, dlc_ids_to_set>>
twin_vars == <<runA, runB>>
caller_vars == <<front, cpc, dispersals>>
gui_vars == <<holder, tpc>>
search_vars == <<spc, query_empty, matching, page, per_page, overflow_checks,
                 sresult>>

vars == <<orch_vars, disperse_vars, lua_vars, twin_vars, caller_vars, gui_vars, search_vars>>

\* ------------------------------------------------------------- helpers
RECURSIVE SeqsUpTo(_, _)
SeqsUpTo(S, n) ==
    IF n = 0 THEN {<<>>}
    ELSE LET shorter == SeqsUpTo(S, n - 1)
         IN shorter \cup {Append(s, x) : s \in shorter, x \in S}

Injective(s) == \A a, b \in DOMAIN s : s[a] = s[b] => a = b

\* the orders in which a HashMap of n entries can be iterated
IterationOrders(n) == {s \in [1..n -> 1..n] : Injective(s)}

\* tree listings: items with distinct paths, each a blob or a tree
TreeItems == [path : Paths, item_type : {"blob", "tree"}]
Trees == {t \in SeqsUpTo(TreeItems, MaxFiles) :
             \A a, b \in DOMAIN t : t[a].path = t[b].path => a = b}

RECURSIVE BlobPaths(_)
BlobPaths(tree) ==
    IF tree = <<>> THEN <<>>
    ELSE IF tree[1].item_type = "blob"
         THEN <<tree[1].path>> \o BlobPaths(Tail(tree))
         ELSE BlobPaths(Tail(tree))

Ok(b) == [ok |-> b]
Err(kind) == [err |-> kind]
NoResult == [none |-> TRUE]

repo == order[idx]
repo_type == repo_info[repo]

\* mutant: only an Encrypted entry takes the file-by-file branch
Enumerated_EncryptedOnly(t) == t = "Encrypted"

\* the else branch of `if repo_type == &RepoType::Branch`
Enumerated(t) == t \in {"Encrypted", "Decrypted"}

\* the temp directory name carries repo_type == Encrypted
TempDirOf(t) == (t = "Encrypted")

Called == contacted \cup {repo}

\* no tree url
NoUrl == [repo |-> 0, sha |-> "none"]

\* mutant: the tree is asked for by the name of the branch
TreeUrl_ByBranch == [repo |-> repo, sha |-> "branch"]

\* the tree url of the entry the loop is at:
\* format!(".../repos/{}/git/trees/{}?recursive=1", repo_full_name, sha)
TreeUrl == [repo |-> repo, sha |-> sha]

\* ------------------------------------------------------------------ Init
\* the variables of a part that does not run
ParkOrch ==
    /\ mode = "repo" /\ repo_info = <<>> /\ order = <<>> /\ serves = <<>>
    /\ idx = 1 /\ pc = "done" /\ result = [none |-> TRUE] /\ rootExists = FALSE
    /\ zip = "absent" /\ tempDirs = {} /\ files = {} /\ zip_content = "none"
    /\ sha = "none" /\ files_to_download = <<>> /\ i = 0 /\ files_written = 0
    /\ mirror = 1 /\ content = 0 /\ probes = <<>> /\ fetched = "none"
    /\ contacted = {} /\ log = <<>>
    /\ tree_url = [repo |-> 0, sha |-> "none"] /\ tree_response = <<>>

ParkDisperse ==
    /\ dpc = "returned" /\ dresult = [none |-> TRUE] /\ archive_len = 0
    /\ extract_i = 0 /\ scratch_exists = FALSE /\ scratch_dirs = {}
    /\ scratch_files = {} /\ dest_dirs = {} /\ dest_files = {} /\ walked = {}
    /\ lua_count = 0 /\ manifest_count = 0 /\ bin_count = 0

ParkLua ==
    /\ lua = [lines |-> <<>>, eol |-> FALSE] /\ upc = "returned"
    /\ lresult = [none |-> TRUE] /\ ncalls = 0 /\ writes = 0
    /\ new_bindings = <<>> /\ updated_count = 0
    /\ appended_count = 0 /\ main_app_id = 0 /\ dlc_ids_to_set = <<>>

ParkTwin ==
    /\ runA = [pc |-> "done"]
    /\ runB = [pc |-> "done"]

ParkCaller ==
    /\ front = "cli" /\ cpc = "exit" /\ dispersals = 0

ParkGui ==
    /\ holder = -1 /\ tpc = <<>>

ParkSearch ==
    /\ spc = "returned" /\ query_empty = TRUE /\ matching = 0 /\ page = 1
    /\ per_page = 1 /\ overflow_checks = FALSE /\ sresult = NoResult

InitOrch ==
    /\ mode \in {"repo", "game"}
    /\ repo_info \in IF mode = "game"
                     THEN {<<"Branch", "Branch", "Decrypted">>}
                     ELSE SeqsUpTo(RepoTypes, MaxRepos)
    /\ order \in IterationOrders(Len(repo_info))
    /\ serves \in [1..Len(repo_info) -> BOOLEAN]
    /\ idx = 1
    /\ pc = IF mode = "game" THEN "settings" ELSE "start"
    /\ result = NoResult
    /\ rootExists \in BOOLEAN
    /\ zip = "absent"
    /\ tempDirs = {}
    /\ files = {}
    /\ zip_content = "none"
    /\ sha = "none"
    /\ files_to_download = <<>>
    /\ i = 0
    /\ files_written = 0
    /\ mirror = 1
    /\ content = 0
    /\ probes = <<>>
    /\ fetched = "none"
    /\ contacted = {}
    /\ log = <<>>
    /\ tree_url = NoUrl
    /\ tree_response = <<>>

Init == InitOrch /\ ParkDisperse /\ ParkLua /\ ParkTwin /\ ParkCaller /\ ParkGui /\ ParkSearch

\* ------------------------------------------------------------- logging
\* The logger receives every line in order.  log keeps the lines of the
\* orchestrator since the current repository was started (nothing reads the
\* lines of a repository that was left); the two lines get_from_cdn writes per
\* probe are the entries of probes.
Logged(line) == Append(log, line)

TryingRepo == [line |-> "trying_repository", repo |-> repo]
Finished == [line |-> "finished_failed"]
TotalFailure(path) == [line |-> "total_failure", path |-> path]
Progress(n, total) == [line |-> "progress", at |-> n, total |-> total]
Starting(total) == [line |-> "starting_download", total |-> total]
SuccessFiles(n) == [line |-> "success_files", count |-> n]
SuccessZip == [line |-> "success_branch_saved"]
\* the line written before `continue` when a resolver step fails: its wording
\* differs for a status and for a transport error, its place does not
SkipLine(step) == [line |-> "resolver_failed", step |-> step, repo |-> repo]

\* ---------------------------------------------------------- run control
\* mutant: the error is dropped and the loop over repo_info goes on
Fail_Swallowed(kind) ==
    /\ result' = result
    /\ pc' = "loop"

\* `?` on an Err: the function returns the error
Fail(kind) ==
    /\ result' = Err(kind)
    /\ pc' = "done"

Return(b) ==
    /\ result' = Ok(b)
    /\ pc' = "done"

\* `continue` of the for loop over repo_info
Continue ==
    /\ idx' = idx + 1
    /\ pc' = "loop"

\* the locals of the Enumerated branch go out of scope with the loop body
DropLocals ==
    /\ sha' = "none"
    /\ files_to_download' = <<>>
    /\ i' = 0
    /\ files_written' = 0
    /\ tree_url' = NoUrl

\* mutant: the status test of the archive answer inverted
ZipStatusOk_Inverted(status) == status # "200"

\* what the two copies take for a successful archive answer
ZipStatusOk(status) ==
    IF mode = "repo" THEN status = "200" ELSE status \in {"200", "204"}

\* -------------------------------------------------------------- actions
\* download_game: let settings = load_settings_sync()?;
LoadSettings ==
    /\ pc = "settings"
    /\ \E ok \in BOOLEAN :
          IF ok THEN pc' = "start" /\ result' = result
          ELSE Fail("settings")
    /\ UNCHANGED <<tree_url, tree_response>>
    /\ UNCHANGED <<disperse_vars, lua_vars, twin_vars, caller_vars, gui_vars, search_vars>>
    /\ UNCHANGED <<mode, repo_info, order, serves, idx, rootExists, zip, tempDirs,
                   files, zip_content, sha, files_to_download, i,
                   files_written, mirror, content, probes, fetched, contacted, log>>

\* fs::create_dir_all(output_dir)?
CreateOutputDir ==
    /\ pc = "start"
    /\ \E ok \in BOOLEAN :
          IF ok \/ rootExists
          THEN rootExists' = TRUE /\ pc' = "loop" /\ result' = result
          ELSE rootExists' = rootExists /\ Fail("io")
    /\ UNCHANGED <<tree_url, tree_response>>
    /\ UNCHANGED <<disperse_vars, lua_vars, twin_vars, caller_vars, gui_vars, search_vars>>
    /\ UNCHANGED <<mode, repo_info, order, serves, idx, zip, tempDirs,
                   files, zip_content, sha, files_to_download, i,
                   files_written, mirror, content, probes, fetched, contacted, log>>

\* head of `for (repo_full_name, repo_type) in repo_info`
NextRepo ==
    /\ pc = "loop"
    /\ IF idx > Len(order)
       THEN /\ log' = Logged(Finished)
            /\ Return(FALSE)
            /\ idx' = idx
       ELSE /\ log' = <<TryingRepo>>
            /\ result' = result
            /\ IF repo_type = "Branch"
               THEN pc' = "zip" /\ idx' = idx
               ELSE IF mode = "repo"
                    THEN pc' = "branch" /\ idx' = idx
                    ELSE Continue
    /\ UNCHANGED <<tree_url, tree_response>>
    /\ UNCHANGED <<disperse_vars, lua_vars, twin_vars, caller_vars, gui_vars, search_vars>>
    /\ UNCHANGED <<mode, repo_info, order, serves, rootExists, zip, tempDirs,
                   files, zip_content, sha, files_to_download, i,
                   files_written, mirror, content, probes, fetched, contacted>>

\* download_branch_zip, and the inlined copy of it in download_game
DownloadBranchZip ==
    /\ pc = "zip"
    /\ contacted' = Called
    /\ \E send \in Sends, body \in BOOLEAN :
          /\ serves[repo] <=> (send = "200" /\ body)
          /\ IF ZipStatusOk(send)
             THEN IF body
                  THEN /\ zip_content' = "payload"
                       /\ pc' = "save"
                       /\ UNCHANGED <<result, idx>>
                  ELSE /\ Fail("body")
                       /\ UNCHANGED <<zip_content, idx>>
             ELSE /\ Continue
                  /\ UNCHANGED <<zip_content, result>>
    /\ UNCHANGED <<tree_url, tree_response>>
    /\ UNCHANGED <<disperse_vars, lua_vars, twin_vars, caller_vars, gui_vars, search_vars>>
    /\ UNCHANGED <<mode, repo_info, order, serves, rootExists, zip, tempDirs,
                   files, sha, files_to_download, i,
                   files_written, mirror, content, probes, fetched, log>>

\* File::create(&zip_path)?; file.write_all(&zip_content)?;
SaveZip ==
    /\ pc = "save"
    /\ \E io \in {"create_fails", "write_fails", "ok"} :
          CASE io = "create_fails" ->
                  /\ Fail("io")
                  /\ UNCHANGED <<zip, log>>
            [] io = "write_fails" ->
                  /\ zip' = "partial"
                  /\ Fail("io")
                  /\ UNCHANGED log
            [] io = "ok" ->
                  /\ zip' = "full"
                  /\ log' = Logged(SuccessZip)
                  /\ pc' = "process"
                  /\ UNCHANGED result
    /\ UNCHANGED <<tree_url, tree_response>>
    /\ UNCHANGED <<disperse_vars, lua_vars, twin_vars, caller_vars, gui_vars, search_vars>>
    /\ UNCHANGED <<mode, repo_info, order, serves, idx, rootExists, tempDirs,
                   files, zip_content, sha, files_to_download, i,
                   files_written, mirror, content, probes, fetched, contacted>>

\* process_downloaded_zip(&zip_path) and what the caller does with its result
ProcessZip ==
    /\ pc = "process"
    /\ \E ok \in BOOLEAN :
          IF ok
          THEN /\ log' = Logged([line |-> "zip_processed"])
               /\ Return(TRUE)
          ELSE IF mode = "repo"
               THEN /\ log' = Logged([line |-> "zip_process_error"])
                    /\ Return(TRUE)
               ELSE /\ log' = log
                    /\ Fail("disperse")
    /\ UNCHANGED <<tree_url, tree_response>>
    /\ UNCHANGED <<disperse_vars, lua_vars, twin_vars, caller_vars, gui_vars, search_vars>>
    /\ UNCHANGED <<mode, repo_info, order, serves, idx, rootExists, zip, tempDirs,
                   files, zip_content, sha, files_to_download, i,
                   files_written, mirror, content, probes, fetched, contacted>>

\* 1. Get the latest commit SHA from the AppID branch
ResolveBranch ==
    /\ pc = "branch"
    /\ contacted' = Called
    /\ \E send \in Sends, parses \in BOOLEAN, s \in Shas :
          /\ serves[repo] <=> (send = "200" /\ parses)
          /\ IF send # "200"
             THEN /\ log' = Logged(SkipLine("branch"))
                  /\ Continue
                  /\ UNCHANGED <<sha, result>>
             ELSE IF parses
                  THEN /\ sha' = s
                       /\ pc' = "tree"
                       /\ UNCHANGED <<log, result, idx>>
                  ELSE /\ Fail("parse")
                       /\ UNCHANGED <<log, sha, idx>>
    /\ UNCHANGED <<tree_url, tree_response>>
    /\ UNCHANGED <<disperse_vars, lua_vars, twin_vars, caller_vars, gui_vars, search_vars>>
    /\ UNCHANGED <<mode, repo_info, order, serves, rootExists, zip, tempDirs,
                   files, zip_content, files_to_download, i,
                   files_written, mirror, content, probes, fetched>>

\* 2. Get the list of files in that branch
ListTree ==
    /\ pc = "tree"
    /\ contacted' = Called
    /\ \E send \in Sends, parses \in BOOLEAN, tree \in Trees :
          IF send # "200"
          THEN /\ log' = Logged(SkipLine("tree"))
               /\ Continue
               /\ sha' = "none"
               /\ tree_url' = NoUrl
               /\ UNCHANGED <<tree_response, result>>
          ELSE IF parses
               THEN /\ tree_response' = tree
                    /\ tree_url' = TreeUrl
                    /\ pc' = "mkdir"
                    /\ UNCHANGED <<log, result, idx, sha>>
               ELSE /\ Fail("parse")
                    /\ tree_url' = TreeUrl
                    /\ UNCHANGED <<log, tree_response, idx, sha>>
    /\ UNCHANGED <<disperse_vars, lua_vars, twin_vars, caller_vars, gui_vars, search_vars>>
    /\ UNCHANGED <<mode, repo_info, order, serves, rootExists, zip, tempDirs,
                   files, zip_content, files_to_download, i,
                   files_written, mirror, content, probes, fetched>>

\* the blobs of the listing are kept, which is the last use of the listing;
\* 3. fs::create_dir_all(&temp_download_dir)?; let mut files_written = 0;
CreateTempDir ==
    /\ pc = "mkdir"
    /\ files_to_download' = BlobPaths(tree_response)
    /\ tree_response' = <<>>
    /\ \E ok \in BOOLEAN :
          IF ok \/ TempDirOf(repo_type) \in tempDirs
          THEN /\ tempDirs' = tempDirs \cup {TempDirOf(repo_type)}
               /\ files_written' = 0
               /\ i' = 0
               /\ log' = Logged(Starting(Len(files_to_download')))
               /\ pc' = "files"
               /\ UNCHANGED result
          ELSE /\ Fail("io")
               /\ UNCHANGED <<tempDirs, files_written, i, log>>
    /\ UNCHANGED <<disperse_vars, lua_vars, twin_vars, caller_vars, gui_vars, search_vars>>
    /\ UNCHANGED <<mode, repo_info, order, serves, idx, rootExists, zip,
                   files, zip_content, sha, tree_url,
                   mirror, content, probes, fetched, contacted>>

\* mutant: the entry is left for the next one whatever it wrote
WroteAny_Never == FALSE

\* if files_written > 0
WroteAny == files_written > 0

\* head of `for (i, path) in files_to_download.iter().enumerate()`, and the
\* code after the loop
NextFile ==
    /\ pc = "files"
    /\ IF i < Len(files_to_download)
       THEN /\ log' = IF i % ProgressEvery = 0
                      THEN Logged(Progress(i, Len(files_to_download)))
                      ELSE log
            /\ pc' = "cdn"
            /\ UNCHANGED <<result, idx, sha, files_to_download, i, files_written,
                           mirror, probes, fetched, content, tree_url>>
       ELSE IF WroteAny
            THEN /\ log' = Logged(SuccessFiles(files_written))
                 /\ Return(TRUE)
                 /\ UNCHANGED <<idx, sha, files_to_download, i, files_written,
                                mirror, probes, fetched, content, tree_url>>
            ELSE /\ Continue
                 /\ DropLocals
                 /\ UNCHANGED <<log, result, mirror, probes, fetched, content>>
    /\ UNCHANGED <<disperse_vars, lua_vars, twin_vars, caller_vars, gui_vars, search_vars>>
    /\ UNCHANGED <<mode, repo_info, order, serves, rootExists, zip, tempDirs,
                   files, zip_content, contacted, tree_response>>

\* one get_from_cdn call of download_file_content, and the step of its loop
GetFromCdn ==
    /\ pc = "cdn"
    /\ contacted' = Called
    /\ \E send \in Sends, body \in BOOLEAN :
          LET path == files_to_download[i + 1]
              probe(returned) == [mirror |-> Mirrors[mirror], sha |-> sha,
                                  path |-> path, returned |-> returned]
          IN IF send = "200"
             THEN IF body
                  THEN /\ probes' = Append(probes, probe("Some"))
                       /\ content' = mirror
                       /\ fetched' = "Some"
                       /\ pc' = "match"
                       /\ UNCHANGED <<mirror, log, result>>
                  ELSE /\ probes' = Append(probes, probe("Err"))
                       /\ fetched' = "Err"
                       /\ Fail("body")
                       /\ UNCHANGED <<mirror, log, content>>
             ELSE /\ probes' = Append(probes, probe("None"))
                  /\ UNCHANGED <<content, result>>
                  /\ IF mirror < NumMirrors
                     THEN /\ mirror' = mirror + 1
                          /\ UNCHANGED <<pc, log, fetched>>
                     ELSE /\ log' = Logged(TotalFailure(path))
                          /\ fetched' = "None"
                          /\ pc' = "match"
                          /\ UNCHANGED mirror
    /\ UNCHANGED <<tree_url, tree_response>>
    /\ UNCHANGED <<disperse_vars, lua_vars, twin_vars, caller_vars, gui_vars, search_vars>>
    /\ UNCHANGED <<mode, repo_info, order, serves, idx, rootExists, zip, tempDirs,
                   files, zip_content, sha, files_to_download, i,
                   files_written>>

\* the locals of one iteration of the file loop go out of scope
DropFetch ==
    /\ mirror' = 1
    /\ content' = 0
    /\ probes' = <<>>
    /\ fetched' = "none"

\* match on the fetched content: Some(content) => create_dir_all(parent)?;
\* File::create(&file_path)?; write_all(&content)?; files_written += 1
\* None => {}
WriteFile ==
    /\ pc = "match"
    /\ IF fetched = "Some"
       THEN \E io \in {"dir_fails", "create_fails", "write_fails", "ok"} :
              LET dir == TempDirOf(repo_type)
                  path == files_to_download[i + 1]
                  others == {f \in files : ~(f.dir = dir /\ f.path = path)}
              IN CASE io \in {"dir_fails", "create_fails"} ->
                         /\ Fail("io")
                         /\ UNCHANGED <<files, files_written, i, mirror,
                                        content, probes, fetched>>
                   [] io = "write_fails" ->
                         /\ files' = others \cup
                                {[dir |-> dir, path |-> path, complete |-> FALSE]}
                         /\ Fail("io")
                         /\ UNCHANGED <<files_written, i, mirror, content,
                                        probes, fetched>>
                   [] io = "ok" ->
                         /\ files' = others \cup
                                {[dir |-> dir, path |-> path, complete |-> TRUE]}
                         /\ files_written' = files_written + 1
                         /\ i' = i + 1
                         /\ pc' = "files"
                         /\ DropFetch
                         /\ UNCHANGED result
       ELSE /\ i' = i + 1
            /\ pc' = "files"
            /\ DropFetch
            /\ UNCHANGED <<files, files_written, result>>
    /\ UNCHANGED <<tree_url, tree_response>>
    /\ UNCHANGED <<disperse_vars, lua_vars, twin_vars, caller_vars, gui_vars, search_vars>>
    /\ UNCHANGED <<mode, repo_info, order, serves, idx, rootExists, zip, tempDirs,
                   zip_content, sha, files_to_download, contacted, log>>

Next ==
    \/ LoadSettings
    \/ CreateOutputDir
    \/ NextRepo
    \/ DownloadBranchZip
    \/ SaveZip
    \/ ProcessZip
    \/ ResolveBranch
    \/ ListTree
    \/ CreateTempDir
    \/ NextFile
    \/ GetFromCdn
    \/ WriteFile

Spec == Init /\ [][Next]_vars

\* ====================================================================
\* Part 2: the archive disperser
\*   tauri-app/src-tauri/src/commands.rs  process_downloaded_zip
\* ====================================================================
\* destination directories under the Steam config directory, in the order in
\* which they are created
Roots == <<"stplug-in", "depotcache", "StatsExport">>
RootSet == {Roots[k] : k \in DOMAIN Roots}

\* directories inside an archive ("" is the archive's top level)
ArchiveDirs == {"", "sub"}
\* base names of archive members
FileNames == {"a.lua", "b.manifest", "c.bin", "d_manifest.lua", "E_MANIFEST.BIN",
              "readme.txt"}
\* a member name that does not stay under the directory it is joined to (an
\* absolute path, or one with ".." components) and names a file directly in
\* the directory stplug-in
EscapeRoot == "stplug-in"
EscapeDir == "C:/Program Files (x86)/Steam/config/stplug-in"
\* archive members; base "" is a directory marker, a name ending in '/'
ArchiveEntries ==
    [dir : ArchiveDirs, base : FileNames]
    \cup {[dir |-> "sub", base |-> ""]}
    \cup {[dir |-> EscapeDir, base |-> "a.lua"]}

\* Path::extension() of a base name
ExtensionOf(name) ==
    CASE name = "a.lua" -> "lua"
      [] name = "b.manifest" -> "manifest"
      [] name = "c.bin" -> "bin"
      [] name = "d_manifest.lua" -> "lua"
      [] name = "E_MANIFEST.BIN" -> "BIN"
      [] name = "readme.txt" -> "txt"

\* mutant: only the extension is looked at
ContainsManifest_ExtensionOnly(name) == ExtensionOf(name) = "manifest"

\* file_name.to_lowercase().contains("manifest")
ContainsManifest(name) ==
    name \in {"b.manifest", "d_manifest.lua", "E_MANIFEST.BIN"}

\* mutant: the name is looked at only when the extension gave no copy
CopiesOf_NameOnlyElse(name) ==
    IF ExtensionOf(name) = "lua" THEN <<"stplug-in">>
    ELSE IF ExtensionOf(name) = "bin" THEN <<"StatsExport">>
    ELSE IF ContainsManifest(name) THEN <<"depotcache">>
    ELSE <<>>

\* the copies the walk makes for one file, in the order of the code: the
\* copy by extension, then the copy by name
CopiesOf(name) ==
    (IF ExtensionOf(name) = "lua" THEN <<"stplug-in">>
     ELSE IF ExtensionOf(name) = "bin" THEN <<"StatsExport">>
     ELSE <<>>)
    \o (IF ContainsManifest(name) THEN <<"depotcache">> ELSE <<>>)

Unit == "()"

DFail ==
    /\ dresult' = Err("io")
    /\ dpc' = "returned"

\* let temp_dir = temp_dir().join(format!("oracle_extract_{}", Uuid::new_v4()));
\* fs::create_dir_all(&temp_dir)?;
CreateScratch ==
    /\ dpc = "scratch"
    /\ \E ok \in BOOLEAN :
          IF ok
          THEN /\ scratch_exists' = TRUE
               /\ scratch_dirs' = {""}
               /\ dpc' = "open"
               /\ UNCHANGED dresult
          ELSE /\ DFail
               /\ UNCHANGED <<scratch_exists, scratch_dirs>>
    /\ UNCHANGED <<archive_len, extract_i, scratch_files, dest_dirs,
                   dest_files, walked, lua_count, manifest_count, bin_count>>
    /\ UNCHANGED <<orch_vars, lua_vars, twin_vars, caller_vars, gui_vars, search_vars>>

\* let zip_file = File::open(zip_path)?; let mut archive = ZipArchive::new(zip_file)?;
OpenArchive ==
    /\ dpc = "open"
    /\ \E ok \in BOOLEAN :
          IF ok
          THEN /\ dpc' = "extract"
               /\ extract_i' = 0
               /\ UNCHANGED dresult
          ELSE /\ DFail
               /\ UNCHANGED extract_i
    /\ UNCHANGED <<archive_len, scratch_exists, scratch_dirs, scratch_files,
                   dest_dirs, dest_files, walked, lua_count, manifest_count,
                   bin_count>>
    /\ UNCHANGED <<orch_vars, lua_vars, twin_vars, caller_vars, gui_vars, search_vars>>

\* one iteration of `for i in 0..archive.len()`; the member is known to the
\* run when archive.by_index(i) returns it.  outpath is temp_dir.join(name):
\* for a name that leaves temp_dir the parent is created and the file is
\* written where the name points
ExtractEntry ==
    /\ dpc = "extract"
    /\ extract_i < archive_len
    /\ \E entry \in ArchiveEntries,
          io \in {"index_fails", "dir_fails", "create_fails", "copy_fails", "ok"} :
          LET inside == entry.dir \in ArchiveDirs
              others == {f \in scratch_files :
                            ~(f.dir = entry.dir /\ f.base = entry.base)}
              file(complete) == [dir |-> entry.dir, base |-> entry.base,
                                 complete |-> complete]
              outside_others == {g \in dest_files :
                                    ~(g.root = EscapeRoot /\ g.base = entry.base)}
              outside_file(complete) ==
                  [root |-> EscapeRoot, base |-> entry.base,
                   from |-> entry.dir, complete |-> complete]
              parent_exists == IF inside THEN entry.dir \in scratch_dirs
                               ELSE EscapeRoot \in dest_dirs
              with_parent ==
                  IF inside
                  THEN /\ scratch_dirs' = scratch_dirs \cup {entry.dir}
                       /\ UNCHANGED dest_dirs
                  ELSE /\ dest_dirs' = dest_dirs \cup {EscapeRoot}
                       /\ UNCHANGED scratch_dirs
              written(complete) ==
                  IF inside
                  THEN /\ scratch_files' = others \cup {file(complete)}
                       /\ UNCHANGED dest_files
                  ELSE /\ dest_files' = outside_others \cup {outside_file(complete)}
                       /\ UNCHANGED scratch_files
          IN CASE io = "index_fails" ->
                     /\ DFail
                     /\ UNCHANGED <<extract_i, scratch_dirs, scratch_files,
                                    dest_dirs, dest_files>>
               [] io = "dir_fails" ->
                     \* create_dir_all of the marker, or of the parent
                     /\ ~parent_exists
                     /\ DFail
                     /\ UNCHANGED <<extract_i, scratch_dirs, scratch_files,
                                    dest_dirs, dest_files>>
               [] io = "create_fails" ->
                     /\ entry.base # ""
                     /\ with_parent
                     /\ DFail
                     /\ UNCHANGED <<extract_i, scratch_files, dest_files>>
               [] io = "copy_fails" ->
                     /\ entry.base # ""
                     /\ with_parent
                     /\ written(FALSE)
                     /\ DFail
                     /\ UNCHANGED extract_i
               [] io = "ok" ->
                     /\ with_parent
                     /\ IF entry.base = ""
                        THEN UNCHANGED <<scratch_files, dest_files>>
                        ELSE written(TRUE)
                     /\ extract_i' = extract_i + 1
                     /\ UNCHANGED <<dpc, dresult>>
    /\ UNCHANGED <<archive_len, scratch_exists, walked,
                   lua_count, manifest_count, bin_count>>
    /\ UNCHANGED <<orch_vars, lua_vars, twin_vars, caller_vars, gui_vars, search_vars>>

\* after the extraction loop: fs::create_dir_all of the three target
\* directories, each with `?`; then the counters are set to 0
CreateDestDirs ==
    /\ dpc = "extract"
    /\ extract_i = archive_len
    /\ \E n \in 0..Len(Roots) :
          \* the first n calls succeed, call n + 1 fails
          /\ dest_dirs' = dest_dirs \cup {Roots[k] : k \in 1..n}
          /\ IF n = Len(Roots)
             THEN /\ dpc' = "walk"
                  /\ UNCHANGED dresult
             ELSE /\ Roots[n + 1] \notin dest_dirs
                  /\ DFail
    /\ lua_count' = 0
    /\ manifest_count' = 0
    /\ bin_count' = 0
    /\ UNCHANGED <<archive_len, extract_i, scratch_exists, scratch_dirs,
                   scratch_files, dest_files, walked>>
    /\ UNCHANGED <<orch_vars, lua_vars, twin_vars, caller_vars, gui_vars, search_vars>>

\* mutant: the target keeps the directory the file has in the archive
SameTarget_WithDirectory(g, f, root) ==
    g.root = root /\ g.base = f.base /\ g.from = f.dir

\* g is the file at the target of f in root: root.join(path.file_name())
SameTarget(g, f, root) == g.root = root /\ g.base = f.base

\* one iteration of the walk over the scratch tree, for a regular file: the
\* order in which WalkDir yields the files is the directory order of the
\* file system
RouteFile ==
    /\ dpc = "walk"
    /\ \E f \in scratch_files \ walked :
       \E n \in 0..Len(CopiesOf(f.base)), partial \in BOOLEAN :
          LET copies == CopiesOf(f.base)
              done == {copies[k] : k \in 1..n}
              failed == n < Len(copies)
              \* a failed fs::copy can leave a truncated target behind
              broken == IF failed /\ partial THEN {copies[n + 1]} ELSE {}
              kept == {g \in dest_files :
                          ~\E r \in done \cup broken : SameTarget(g, f, r)}
          IN /\ ~failed => ~partial
             /\ dest_files' = kept
                   \cup {[root |-> r, base |-> f.base, from |-> f.dir,
                          complete |-> TRUE] : r \in done}
                   \cup {[root |-> r, base |-> f.base, from |-> f.dir,
                          complete |-> FALSE] : r \in broken}
             /\ lua_count' = lua_count + (IF "stplug-in" \in done THEN 1 ELSE 0)
             /\ bin_count' = bin_count + (IF "StatsExport" \in done THEN 1 ELSE 0)
             /\ manifest_count' =
                   manifest_count + (IF "depotcache" \in done THEN 1 ELSE 0)
             /\ walked' = walked \cup {f}
             /\ IF failed THEN DFail ELSE UNCHANGED <<dpc, dresult>>
    /\ UNCHANGED <<archive_len, extract_i, scratch_exists, scratch_dirs,
                   scratch_files, dest_dirs>>
    /\ UNCHANGED <<orch_vars, lua_vars, twin_vars, caller_vars, gui_vars, search_vars>>

\* after the walk: the summary is printed, fs::remove_dir_all(&temp_dir)?; Ok(())
Cleanup ==
    /\ dpc = "walk"
    /\ scratch_files \subseteq walked
    /\ \E ok \in BOOLEAN :
          IF ok
          THEN /\ scratch_exists' = FALSE
               /\ scratch_dirs' = {}
               /\ scratch_files' = {}
               /\ dresult' = Ok(Unit)
               /\ dpc' = "returned"
          ELSE /\ DFail
               /\ UNCHANGED <<scratch_exists, scratch_dirs, scratch_files>>
    /\ UNCHANGED <<archive_len, extract_i, dest_dirs, dest_files, walked,
                   lua_count, manifest_count, bin_count>>
    /\ UNCHANGED <<orch_vars, lua_vars, twin_vars, caller_vars, gui_vars, search_vars>>

InitDisperse ==
    /\ dpc = "scratch"
    /\ dresult = NoResult
    /\ archive_len \in 0..MaxEntries
    /\ extract_i = 0
    /\ scratch_exists = FALSE
    /\ scratch_dirs = {}
    /\ scratch_files = {}
    /\ dest_dirs \in {{}, RootSet}
    /\ dest_files = {}
    /\ walked = {}
    /\ lua_count = 0
    /\ manifest_count = 0
    /\ bin_count = 0

NextDisperse ==
    \/ CreateScratch
    \/ OpenArchive
    \/ ExtractEntry
    \/ CreateDestDirs
    \/ RouteFile
    \/ Cleanup

DisperseInit == InitDisperse /\ ParkOrch /\ ParkLua /\ ParkTwin /\ ParkCaller /\ ParkGui /\ ParkSearch

SpecDisperse == DisperseInit /\ [][NextDisperse]_vars

\* ====================================================================
\* Part 3: the manifest reconciler, two editors of one local .lua file
\*   tauri-app/src-tauri/src/commands.rs  update_game_files, sync_dlcs_in_lua
\* ====================================================================
\* A file content is a string; it is kept as the lines str::lines() yields
\* and a flag telling whether the last line is terminated by '\n'.  A line is
\* kept as what the two regular expressions can see of it.
DepotIds == {1, 2}
ManifestIds == {10, 20}
AppIds == {100, 200, 300, 999}

TextLine(t) == [kind |-> "text", text |-> t]
Blank == TextLine("")
OtherText == TextLine("-- some other line")
\* "-- Appended by Yeyo Updater --"
MergeMarker == TextLine("-- Appended by Yeyo Updater --")
\* "-- DLCs Synced by Oracle --"
SyncMarker == TextLine("-- DLCs Synced by Oracle --")

\* a line holding one match of re_replace; canon: the call is spelled as
\* format!(r#"setManifestid({}, "{}", 0)"#, ..) spells it
SetCall(d, m, canon) ==
    [kind |-> "set", depot |-> d, manifest |-> m, canon |-> canon]
\* a line holding matches of addappid_re, with the ids in the order of the
\* matches
AddCall(ids) == [kind |-> "add", ids |-> ids]

Str(lines, eol) == [lines |-> lines, eol |-> eol]
EmptyStr == Str(<<>>, FALSE)
Front(s) == SubSeq(s, 1, Len(s) - 1)

\* the strings: an empty last line without terminator is no line at all
IsString(s) ==
    IF s.eol THEN s.lines # <<>>
    ELSE s.lines = <<>> \/ s.lines[Len(s.lines)] # Blank

\* lines.join("\n")
JoinLines(lines) ==
    IF lines = <<>> THEN EmptyStr
    ELSE IF lines[Len(lines)] # Blank THEN Str(lines, FALSE)
    ELSE IF Len(lines) = 1 THEN EmptyStr
    ELSE Str(Front(lines), TRUE)

IsEmpty(s) == s = EmptyStr

\* s.push('\n')
PushNewline(s) ==
    IF s.eol \/ IsEmpty(s) THEN Str(Append(s.lines, Blank), TRUE)
    ELSE Str(s.lines, TRUE)

\* s.push_str(line); s.push('\n'), for s empty or ending with '\n'
PushLine(s, line) == Str(Append(s.lines, line), TRUE)

RECURSIVE PushLines(_, _)
PushLines(s, lines) ==
    IF lines = <<>> THEN s
    ELSE PushLines(PushLine(s, lines[1]), Tail(lines))

\* the orders in which the entries of a HashMap with key set S are iterated
KeyOrders(S) == {s \in [1..Cardinality(S) -> S] : Injective(s)}

\* the files the two commands are run on
MergeAlphabet ==
    {Blank, OtherText}
    \cup {SetCall(d, m, TRUE) : d \in DepotIds, m \in ManifestIds}
    \cup {SetCall(d, 10, FALSE) : d \in DepotIds}
SyncAlphabet ==
    {Blank, OtherText, SyncMarker}
    \cup {AddCall(<<a>>) : a \in {100, 200, 999}}
    \cup {AddCall(<<100, 999>>), AddCall(<<999, 100>>)}
Files(alphabet) ==
    {s \in [lines : SeqsUpTo(alphabet, MaxLines), eol : BOOLEAN] : IsString(s)}

\* manifest_map: the bindings read from the archive, never empty when the
\* merge is reached
Bindings ==
    UNION {[D -> ManifestIds] : D \in (SUBSET DepotIds) \ {{}}}

LFail(kind) ==
    /\ lresult' = Err(kind)
    /\ upc' = "returned"
    /\ ncalls' = ncalls + 1

\* fs::write(&lua_file_path, content): the file is truncated, then written; a
\* failure leaves the old content or a truncated file
WriteLua(text, ok, damaged) ==
    /\ writes' = writes + 1
    /\ lua' = IF ok THEN text ELSE IF damaged THEN EmptyStr ELSE lua

\* ---------------------------------------------------- update_game_files
\* find_steam_config_path()?; find_lua_file_for_appid(..)?
UpdateFindLua ==
    /\ upc = "find"
    /\ \E ok \in BOOLEAN :
          IF ok THEN upc' = "download" /\ UNCHANGED <<lresult, ncalls>>
          ELSE LFail("not_found")
    /\ UNCHANGED <<lua, writes, new_bindings, updated_count,
                   appended_count, main_app_id, dlc_ids_to_set>>
    /\ UNCHANGED <<orch_vars, disperse_vars, twin_vars, caller_vars, gui_vars, search_vars>>

\* 1. Download Branch Zip: the loop over the three repositories, left with the
\* first successful answer; a body that cannot be read is an error
UpdateDownload ==
    /\ upc = "download"
    /\ \E got \in {"zip", "body_error", "none"} :
          CASE got = "zip" -> upc' = "extract" /\ UNCHANGED <<lresult, ncalls>>
            [] got = "body_error" -> LFail("body")
            [] got = "none" -> LFail("all_failed")
    /\ UNCHANGED <<lua, writes, new_bindings, updated_count,
                   appended_count, main_app_id, dlc_ids_to_set>>
    /\ UNCHANGED <<orch_vars, disperse_vars, twin_vars, caller_vars, gui_vars, search_vars>>

\* mutant: the local file is opened for writing before the archive is read
UpdateExtract_FileOpenedFirst ==
    /\ upc = "extract"
    /\ \E got \in {"io_error", "bad_archive", "no_manifest", "manifests"} :
          CASE got = "io_error" -> LFail("io")
            [] got = "bad_archive" -> LFail("archive")
            [] got = "no_manifest" -> LFail("no_manifest")
            [] got = "manifests" ->
                  /\ upc' = "merge"
                  /\ UNCHANGED <<lresult, ncalls>>
    /\ lua' = EmptyStr
    /\ UNCHANGED <<writes, new_bindings, updated_count,
                   appended_count, main_app_id, dlc_ids_to_set>>
    /\ UNCHANGED <<orch_vars, disperse_vars, twin_vars, caller_vars, gui_vars, search_vars>>

\* 2. Extract Manifests: the map of the DepotID_ManifestID.manifest members;
\* the archive served holds the members of new_bindings, or none when what
\* was downloaded is another archive
UpdateExtract ==
    /\ upc = "extract"
    /\ \E got \in {"io_error", "bad_archive", "no_manifest", "manifests"} :
          CASE got = "io_error" -> LFail("io")
            [] got = "bad_archive" -> LFail("archive")
            [] got = "no_manifest" -> LFail("no_manifest")
            [] got = "manifests" ->
                  /\ upc' = "merge"
                  /\ UNCHANGED <<lresult, ncalls>>
    /\ UNCHANGED <<lua, writes, new_bindings, updated_count,
                   appended_count, main_app_id, dlc_ids_to_set>>
    /\ UNCHANGED <<orch_vars, disperse_vars, twin_vars, caller_vars, gui_vars, search_vars>>

\* mutant: the old manifest id is not compared
NeedsRewrite_IgnoresValue(line) ==
    line.kind = "set" /\ line.depot \in DOMAIN new_bindings

\* the closure of replace_all: the match is rewritten when manifest_map holds
\* another manifest id for its depot id
NeedsRewrite(line) ==
    /\ line.kind = "set"
    /\ line.depot \in DOMAIN new_bindings
    /\ new_bindings[line.depot] # line.manifest

\* mutant: every call of a depot id of manifest_map is spelled anew
Rewritten_Respelled(line) ==
    IF line.kind = "set" /\ line.depot \in DOMAIN new_bindings
    THEN SetCall(line.depot, new_bindings[line.depot], TRUE)
    ELSE line

\* what the closure returns for a match: the call with the new manifest id,
\* or caps[0] as it stands
Rewritten(line) ==
    IF NeedsRewrite(line)
    THEN SetCall(line.depot, new_bindings[line.depot], TRUE)
    ELSE line

\* mutant: no depot id is marked as processed
ProcessedDepots_None(lines) == {}

\* processed_depots after replace_all
ProcessedDepots(lines) ==
    {lines[k].depot : k \in {n \in DOMAIN lines : lines[n].kind = "set"}}

\* mutant: the file is written back in every case
ShouldWrite_Always(updated, appended) == TRUE

\* if updated_count > 0 || appended_count > 0
ShouldWrite(updated, appended) == updated > 0 \/ appended > 0

\* 3. Update Lua File, 4. Save and Cleanup
MergeManifestIds ==
    /\ upc = "merge"
    /\ \E io \in {"read_fails", "write_fails", "ok"}, damaged \in BOOLEAN,
          append_order \in KeyOrders(DOMAIN new_bindings
                                     \ ProcessedDepots(lua.lines)) :
          LET original == lua.lines
              replaced == [k \in DOMAIN original |-> Rewritten(original[k])]
              updated == Cardinality({k \in DOMAIN original :
                                         NeedsRewrite(original[k])})
              lines_to_append ==
                  [k \in DOMAIN append_order |->
                      SetCall(append_order[k], new_bindings[append_order[k]], TRUE)]
              appended == Len(lines_to_append)
              updated_lua_content ==
                  IF lines_to_append = <<>> THEN Str(replaced, lua.eol)
                  ELSE PushLines(PushLine(PushNewline(Str(replaced, lua.eol)),
                                          MergeMarker),
                                 lines_to_append)
          IN IF io = "read_fails"
             THEN /\ ~damaged
                  /\ LFail("io")
                  /\ UNCHANGED <<lua, writes, updated_count, appended_count>>
             ELSE IF ShouldWrite(updated, appended)
                  THEN /\ WriteLua(updated_lua_content, io = "ok", damaged)
                       /\ (io = "ok") => ~damaged
                       /\ IF io = "ok"
                          THEN /\ updated_count' = updated
                               /\ appended_count' = appended
                               /\ lresult' = Ok(<<updated, appended>>)
                               /\ upc' = "returned"
                               /\ ncalls' = ncalls + 1
                          ELSE /\ LFail("io")
                               /\ UNCHANGED <<updated_count, appended_count>>
                  ELSE /\ io = "ok" /\ ~damaged
                       /\ updated_count' = updated
                       /\ appended_count' = appended
                       /\ lresult' = Ok(<<updated, appended>>)
                       /\ upc' = "returned"
                       /\ ncalls' = ncalls + 1
                       /\ UNCHANGED <<lua, writes>>
    /\ UNCHANGED <<new_bindings, main_app_id, dlc_ids_to_set>>
    /\ UNCHANGED <<orch_vars, disperse_vars, twin_vars, caller_vars, gui_vars, search_vars>>

\* the command is invoked again
UpdateAgain ==
    /\ upc = "returned"
    /\ ncalls < MaxCalls
    /\ upc' = "find"
    /\ UNCHANGED <<lua, lresult, ncalls, writes, new_bindings,
                   updated_count, appended_count, main_app_id, dlc_ids_to_set>>
    /\ UNCHANGED <<orch_vars, disperse_vars, twin_vars, caller_vars, gui_vars, search_vars>>

InitMerge ==
    /\ lua \in Files(MergeAlphabet)
    /\ upc = "find"
    /\ lresult = NoResult
    /\ ncalls = 0
    /\ writes = 0
    /\ new_bindings \in Bindings
    /\ updated_count = 0
    /\ appended_count = 0
    /\ main_app_id = 0
    /\ dlc_ids_to_set = <<>>

NextMerge ==
    \/ UpdateFindLua
    \/ UpdateDownload
    \/ UpdateExtract
    \/ MergeManifestIds
    \/ UpdateAgain

MergeInit == InitMerge /\ ParkOrch /\ ParkDisperse /\ ParkTwin /\ ParkCaller /\ ParkGui /\ ParkSearch

SpecMerge == MergeInit /\ [][NextMerge]_vars

\* ----------------------------------------------------- sync_dlcs_in_lua
\* mutant: no line is filtered out
KeepsLine_Everything(line) == TRUE

\* the filter closure: a line with a match of addappid_re is kept when the id
\* of its first match is main_app_id; a line without a match is kept
KeepsLine(line) ==
    line.kind = "add" => line.ids[1] = main_app_id

\* original_content.lines().filter(..).collect()
RECURSIVE FilteredLines(_)
FilteredLines(lines) ==
    IF lines = <<>> THEN <<>>
    ELSE (IF KeepsLine(lines[1]) THEN <<lines[1]>> ELSE <<>>)
         \o FilteredLines(Tail(lines))

\* new_content.push_str("\n-- DLCs Synced by Oracle --\n")
SyncBlockHead(s) == PushLine(PushNewline(s), SyncMarker)

\* the whole command: find the file, read it, filter, append, write
SyncDlcsInLua ==
    /\ upc = "sync"
    /\ ncalls < MaxCalls
    /\ \E io \in {"find_fails", "read_fails", "write_fails", "ok"},
          damaged \in BOOLEAN :
          LET filtered_lines == FilteredLines(lua.lines)
              joined == JoinLines(filtered_lines)
              terminated == IF ~IsEmpty(joined) /\ ~joined.eol
                            THEN PushNewline(joined) ELSE joined
              new_content ==
                  IF dlc_ids_to_set # <<>>
                  THEN PushLines(SyncBlockHead(terminated),
                                 [k \in DOMAIN dlc_ids_to_set |->
                                     AddCall(<<dlc_ids_to_set[k]>>)])
                  ELSE joined
          IN /\ ncalls' = ncalls + 1
             /\ IF io \in {"find_fails", "read_fails"}
                THEN /\ ~damaged
                     /\ lresult' = Err(IF io = "find_fails" THEN "not_found" ELSE "io")
                     /\ UNCHANGED <<lua, writes>>
                ELSE /\ WriteLua(new_content, io = "ok", damaged)
                     /\ (io = "ok") => ~damaged
                     /\ lresult' = IF io = "ok" THEN Ok(Len(dlc_ids_to_set))
                                   ELSE Err("io")
    /\ UNCHANGED <<upc, new_bindings, updated_count, appended_count,
                   main_app_id, dlc_ids_to_set>>
    /\ UNCHANGED <<orch_vars, disperse_vars, twin_vars, caller_vars, gui_vars, search_vars>>

\* the ids handed over: a set of ids, in some order
DlcLists == {s \in SeqsUpTo(AppIds, MaxDlcs) : Injective(s)}

InitSync ==
    /\ lua \in Files(SyncAlphabet)
    /\ upc = "sync"
    /\ lresult = NoResult
    /\ ncalls = 0
    /\ writes = 0
    /\ new_bindings = <<>>
    /\ updated_count = 0
    /\ appended_count = 0
    /\ main_app_id = 100
    /\ dlc_ids_to_set \in DlcLists

NextSync == SyncDlcsInLua

SyncInit == InitSync /\ ParkOrch /\ ParkDisperse /\ ParkTwin /\ ParkCaller /\ ParkGui /\ ParkSearch

SpecSync == SyncInit /\ [][NextSync]_vars

\* ====================================================================
\* Part 4: two runs of download_from_repo side by side
\*   src/src/downloader/mod.rs  download_from_repo
\* The run is written as a function of its state and of what the
\* environment answers, so that two runs can be fed the same answers.
\* ====================================================================
\* what the environment answers to the step a run is at
Answer(send, ok, s, tree, io) ==
    [send |-> send, ok |-> ok, sha |-> s, tree |-> tree, io |-> io]

AnswersAt(at) ==
    CASE at \in {"zip", "cdn"} ->
            {Answer(send, ok, "none", <<>>, "ok") : send \in Sends, ok \in BOOLEAN}
      [] at = "branch" ->
            {Answer(send, ok, s, <<>>, "ok") :
                send \in Sends, ok \in BOOLEAN, s \in Shas}
      [] at = "tree" ->
            {Answer(send, ok, "none", tree, "ok") :
                send \in Sends, ok \in BOOLEAN, tree \in Trees}
      [] at \in {"start", "mkdir"} ->
            {Answer("200", TRUE, "none", <<>>, io) : io \in {"dir_fails", "ok"}}
      [] at \in {"save", "match"} ->
            {Answer("200", TRUE, "none", <<>>, io) :
                io \in {"dir_fails", "create_fails", "write_fails", "ok"}}
      [] OTHER -> {Answer("200", TRUE, "none", <<>>, "ok")}

\* repo_info of a run is the list in the order in which the iterator yields it
RunRepo(s) == s.idx
RunType(s) == s.repo_info[s.idx]

\* the function returns: its locals are gone
RunEnd(s, res) ==
    [s EXCEPT !.result = res, !.pc = "done", !.sha = "none",
              !.files_to_download = <<>>, !.i = 0, !.files_written = 0,
              !.mirror = 1, !.content = 0]
RunFail(s, kind) == RunEnd(s, Err(kind))
RunReturn(s, b) == RunEnd(s, Ok(b))
\* `continue`: the locals of the loop body go out of scope
RunContinue(s) ==
    [s EXCEPT !.idx = s.idx + 1, !.pc = "loop", !.sha = "none",
              !.files_to_download = <<>>, !.i = 0, !.files_written = 0]

\* one step of download_from_repo from state s under answer e
RunStep(s, e) ==
    CASE s.pc = "start" ->
            \* fs::create_dir_all(output_dir)?
            IF e.io = "ok" \/ s.rootExists
            THEN [s EXCEPT !.rootExists = TRUE, !.pc = "loop"]
            ELSE RunFail(s, "io")
      [] s.pc = "loop" ->
            \* for (repo_full_name, repo_type) in repo_info
            IF s.idx > Len(s.repo_info) THEN RunReturn(s, FALSE)
            ELSE IF Enumerated(RunType(s)) THEN [s EXCEPT !.pc = "branch"]
            ELSE [s EXCEPT !.pc = "zip"]
      [] s.pc = "zip" ->
            \* download_branch_zip
            IF e.send = "200"
            THEN IF e.ok THEN [s EXCEPT !.pc = "save"] ELSE RunFail(s, "body")
            ELSE RunContinue(s)
      [] s.pc = "save" ->
            \* File::create(&zip_path)?; file.write_all(&zip_content)?
            IF e.io = "ok" THEN [s EXCEPT !.zip = "full", !.pc = "process"]
            ELSE IF e.io = "write_fails"
                 THEN RunFail([s EXCEPT !.zip = "partial"], "io")
                 ELSE RunFail(s, "io")
      [] s.pc = "process" ->
            \* process_downloaded_zip: Ok and Err are both only logged
            RunReturn(s, TRUE)
      [] s.pc = "branch" ->
            IF e.send # "200" THEN RunContinue(s)
            ELSE IF e.ok THEN [s EXCEPT !.sha = e.sha, !.pc = "tree"]
            ELSE RunFail(s, "parse")
      [] s.pc = "tree" ->
            IF e.send # "200" THEN RunContinue(s)
            ELSE IF e.ok
                 THEN [s EXCEPT !.files_to_download = BlobPaths(e.tree),
                                !.pc = "mkdir"]
                 ELSE RunFail(s, "parse")
      [] s.pc = "mkdir" ->
            \* fs::create_dir_all(&temp_download_dir)?
            IF e.io = "ok" \/ TempDirOf(RunType(s)) \in s.tempDirs
            THEN [s EXCEPT !.tempDirs = s.tempDirs \cup {TempDirOf(RunType(s))},
                           !.files_written = 0, !.i = 0, !.pc = "files"]
            ELSE RunFail(s, "io")
      [] s.pc = "files" ->
            IF s.i < Len(s.files_to_download) THEN [s EXCEPT !.pc = "cdn"]
            ELSE IF s.files_written > 0 THEN RunReturn(s, TRUE)
            ELSE RunContinue(s)
      [] s.pc = "cdn" ->
            \* get_from_cdn on the url of s.mirror
            IF e.send = "200"
            THEN IF e.ok THEN [s EXCEPT !.pc = "match", !.content = s.mirror]
                 ELSE RunFail(s, "body")
            ELSE IF s.mirror < NumMirrors THEN [s EXCEPT !.mirror = s.mirror + 1]
            ELSE [s EXCEPT !.pc = "match", !.content = 0]
      [] s.pc = "match" ->
            LET dir == TempDirOf(RunType(s))
                path == s.files_to_download[s.i + 1]
                others == {f \in s.files : ~(f.dir = dir /\ f.path = path)}
                file(complete) ==
                    [dir |-> dir, path |-> path, complete |-> complete,
                     content |-> [repo |-> RunRepo(s), sha |-> s.sha]]
                next == [s EXCEPT !.i = s.i + 1, !.pc = "files", !.mirror = 1,
                                  !.content = 0]
            IN IF s.content = 0 THEN next
               ELSE IF e.io = "ok"
                    THEN [next EXCEPT !.files = others \cup {file(TRUE)},
                                      !.files_written = s.files_written + 1]
               ELSE IF e.io = "write_fails"
                    THEN RunFail([s EXCEPT !.files = others \cup {file(FALSE)}],
                                 "io")
               ELSE RunFail(s, "io")
      [] OTHER -> s

\* the network request a run issues in the step it is at
Request(s) ==
    CASE s.pc = "zip" ->
            [endpoint |-> "zipball", repo |-> RunRepo(s), sha |-> "none", path |-> 0]
      [] s.pc = "branch" ->
            [endpoint |-> "branches", repo |-> RunRepo(s), sha |-> "none", path |-> 0]
      [] s.pc = "tree" ->
            [endpoint |-> "trees", repo |-> RunRepo(s), sha |-> s.sha, path |-> 0]
      [] s.pc = "cdn" ->
            [endpoint |-> Mirrors[s.mirror], repo |-> RunRepo(s), sha |-> s.sha,
             path |-> s.files_to_download[s.i + 1]]
      [] OTHER ->
            [endpoint |-> "none", repo |-> 0, sha |-> "none", path |-> 0]

RunStart(list, root) ==
    [repo_info |-> list, rootExists |-> root, idx |-> 1,
     pc |-> "start", result |-> NoResult, zip |-> "absent", tempDirs |-> {},
     files |-> {}, sha |-> "none", files_to_download |-> <<>>, i |-> 0,
     files_written |-> 0, mirror |-> 1, content |-> 0]

\* both runs take one step under the same answer
StepBoth ==
    /\ runA.pc # "done" \/ runB.pc # "done"
    /\ \E e \in AnswersAt(runA.pc) \cup AnswersAt(runB.pc) :
          /\ runA' = RunStep(runA, e)
          /\ runB' = RunStep(runB, e)
    /\ UNCHANGED <<orch_vars, disperse_vars, lua_vars, caller_vars, gui_vars, search_vars>>

\* two calls whose lists differ in one entry, Encrypted in the one and
\* Decrypted in the other
InitTwin ==
    \E list \in SeqsUpTo(RepoTypes, MaxRepos), root \in BOOLEAN :
    \E at \in DOMAIN list :
        /\ list[at] = "Encrypted"
        /\ runA = RunStart(list, root)
        /\ runB = RunStart([list EXCEPT ![at] = "Decrypted"], root)

NextTwin == StepBoth

TwinInit == InitTwin /\ ParkOrch /\ ParkDisperse /\ ParkLua /\ ParkCaller /\ ParkGui /\ ParkSearch

SpecTwin == TwinInit /\ [][NextTwin]_vars

\* ====================================================================
\* Part 5: the callers of download_from_repo
\*   main.rs  run_cli_mode;  gui/mod.rs  OracleApp::start_download
\* ====================================================================
\* one step of the download_from_repo call the caller awaits; the call of
\* process_downloaded_zip inside it (downloader/mod.rs:142) is counted
CallDownloadFromRepo ==
    /\ cpc = "download"
    /\ runA.pc # "done"
    /\ \E e \in AnswersAt(runA.pc) : runA' = RunStep(runA, e)
    /\ dispersals' = dispersals + (IF runA.pc = "process" THEN 1 ELSE 0)
    /\ UNCHANGED <<runB, front, cpc>>
    /\ UNCHANGED <<orch_vars, disperse_vars, lua_vars, gui_vars, search_vars>>

\* zip_path.exists(): the path the caller builds is the path the archive is
\* saved at
ZipPathExists == runA.zip # "absent"

\* match download_result: Ok(true) => if zip_path.exists()
\* { app_state.process_downloaded_zip(&zip_path) }; the other arms only print
MatchDownloadResult ==
    /\ cpc = "download"
    /\ runA.pc = "done"
    /\ dispersals' = dispersals
           + (IF runA.result = Ok(TRUE) /\ ZipPathExists THEN 1 ELSE 0)
    /\ cpc' = "exit"
    /\ UNCHANGED <<runA, runB, front>>
    /\ UNCHANGED <<orch_vars, disperse_vars, lua_vars, gui_vars, search_vars>>

\* the caller is about to call download_from_repo; an archive file of an
\* earlier run can be at the path when the output directory exists
InitCaller ==
    \E list \in SeqsUpTo(RepoTypes, MaxRepos), root \in BOOLEAN,
       stale \in BOOLEAN :
        /\ stale => root
        /\ runA = [RunStart(list, root) EXCEPT
                       !.zip = IF stale THEN "full" ELSE "absent"]
        /\ runB = [pc |-> "done"]
        /\ front \in {"cli", "gui"}
        /\ cpc = "download"
        /\ dispersals = 0

NextCaller ==
    \/ CallDownloadFromRepo
    \/ MatchDownloadResult

CallerInit == InitCaller /\ ParkOrch /\ ParkDisperse /\ ParkLua /\ ParkGui /\ ParkSearch

SpecCaller == CallerInit /\ [][NextCaller]_vars

\* ====================================================================
\* Part 6: the threads of the GUI and the mutex of the shared AppState
\*   gui/mod.rs  OracleApp::update, fetch_game_name, start_download
\* ====================================================================
\* the thread that runs OracleApp::update
UiThread == 0
\* the threads made by Promise::spawn_thread
Spawned == 1..MaxThreads
Threads == {UiThread} \cup Spawned
NoThread == -1

\* a thread is at a lock() call and has not returned from it
WantStates == {"want_read", "want_sd_read", "want_sd_mark", "want_set_id",
               "want_logger", "want_process", "want_fetch"}
\* a thread is in the scope of a guard
GuardStates == {"read", "sd_read", "sd_mark", "set_id",
                "retrieving", "processing", "fetching"}

\* which guard a lock() call gives
GuardOf(want) ==
    CASE want = "want_read" -> "read"
      [] want = "want_sd_read" -> "sd_read"
      [] want = "want_sd_mark" -> "sd_mark"
      [] want = "want_set_id" -> "set_id"
      [] want = "want_logger" -> "retrieving"
      [] want = "want_process" -> "processing"
      [] want = "want_fetch" -> "fetching"

\* mutant: lock() returns whether or not the mutex is held
Acquire_NoWait(t) == holder' = t

\* state.lock().unwrap() returns: the mutex was free and t holds it
Acquire(t) == holder = NoThread /\ holder' = t

\* the guard goes out of scope
Release(t) == holder = t /\ holder' = NoThread

\* the next thread Promise::spawn_thread makes
CanSpawn == \E t \in Spawned : tpc[t] = "unspawned"
NextSpawn ==
    CHOOSE t \in Spawned :
        tpc[t] = "unspawned" /\ \A u \in Spawned : u < t => tpc[u] # "unspawned"

\* update() comes to one of its lock() calls: a read of the state (the
\* promise results, the status for the button, the log area), the first
\* lock of start_download, or the lock before fetch_game_name
UiReaches ==
    /\ tpc[UiThread] = "idle"
    /\ \E want \in {"want_read", "want_sd_read", "want_set_id"} :
          /\ (want # "want_read") => CanSpawn
          /\ tpc' = [tpc EXCEPT ![UiThread] = want]
    /\ UNCHANGED holder
    /\ UNCHANGED <<orch_vars, disperse_vars, lua_vars, twin_vars, caller_vars, search_vars>>

\* a lock() call of a thread returns
Lock(t) ==
    /\ tpc[t] \in WantStates
    /\ Acquire(t)
    /\ tpc' = [tpc EXCEPT ![t] = GuardOf(tpc[t])]
    /\ UNCHANGED <<orch_vars, disperse_vars, lua_vars, twin_vars, caller_vars, search_vars>>

\* the UI thread leaves the scope of its guard; start_download locks a second
\* time to set the status and then spawns the download thread;
\* fetch_game_name is called after the app id was set
UiUnlocks ==
    /\ tpc[UiThread] \in {"read", "sd_read", "sd_mark", "set_id"}
    /\ Release(UiThread)
    /\ tpc' =
          CASE tpc[UiThread] = "read" -> [tpc EXCEPT ![UiThread] = "idle"]
            [] tpc[UiThread] = "sd_read" ->
                   [tpc EXCEPT ![UiThread] = "want_sd_mark"]
            [] tpc[UiThread] = "sd_mark" ->
                   [tpc EXCEPT ![UiThread] = "idle", ![NextSpawn] = "want_logger"]
            [] tpc[UiThread] = "set_id" ->
                   [tpc EXCEPT ![UiThread] = "idle", ![NextSpawn] = "want_fetch"]
    /\ UNCHANGED <<orch_vars, disperse_vars, lua_vars, twin_vars, caller_vars, search_vars>>

\* let result = download_from_repo(.., &mut *state_clone.lock().unwrap()).await;
\* is through: the guard, a temporary of the statement, is dropped at its end;
\* on Ok(true) the thread goes on to lock again
DownloadReturns(t) ==
    /\ tpc[t] = "retrieving"
    /\ Release(t)
    /\ \E ok_true \in BOOLEAN :
          tpc' = [tpc EXCEPT ![t] = IF ok_true THEN "want_process" ELSE "returned"]
    /\ UNCHANGED <<orch_vars, disperse_vars, lua_vars, twin_vars, caller_vars, search_vars>>

\* the block of `if let Ok(true) = &result` ends, or the async block of
\* fetch_game_name ends: the guard is dropped and the thread returns
WorkerUnlocks(t) ==
    /\ tpc[t] \in {"processing", "fetching"}
    /\ Release(t)
    /\ tpc' = [tpc EXCEPT ![t] = "returned"]
    /\ UNCHANGED <<orch_vars, disperse_vars, lua_vars, twin_vars, caller_vars, search_vars>>

InitGui ==
    /\ holder = NoThread
    /\ tpc = [t \in Threads |-> IF t = UiThread THEN "idle" ELSE "unspawned"]

NextGui ==
    \/ UiReaches
    \/ UiUnlocks
    \/ \E t \in Threads : Lock(t)
    \/ \E t \in Spawned : DownloadReturns(t)
    \/ \E t \in Spawned : WorkerUnlocks(t)

GuiInit ==
    InitGui /\ ParkOrch /\ ParkDisperse /\ ParkLua /\ ParkTwin /\ ParkCaller /\ ParkSearch

SpecGui == GuiInit /\ [][NextGui]_vars

\* ====================================================================
\* Part 7: the paging of GameDatabase::search
\*   tauri-app/src-tauri/src/models.rs  GameDatabase::search
\* ====================================================================
\* usize arithmetic is done modulo Modulus.  The word is kept at UsizeBits
\* bits, far above every input of the model, so that the products stay within
\* the integers of the model checker; wrap-around is the same at 64 bits.
UsizeBits == 16
Modulus == 2 ^ UsizeBits

\* an arithmetic result that does not fit a usize
Overflows(x) == x < 0 \/ x >= Modulus
\* what a build without overflow checks computes
Wrapping(x) == x % Modulus

UMin(a, b) == IF a <= b THEN a ELSE b
UMax(a, b) == IF a >= b THEN a ELSE b

\* (total as f64 / per_page as f64).ceil() as usize
TotalPages(n, per) == (n + per - 1) \div per

\* page.max(1).min(total_pages)
CurrentPage(p, pages) == UMin(UMax(p, 1), pages)

\* matching_apps: the apps that pass the filter, by their position
MatchingApps(n) == [k \in 1..n |-> k]

\* matching_apps[start..end]
Slice(s, from, to) == [k \in 1..(to - from) |-> s[from + k]]

Panic == [panic |-> "arithmetic overflow"]

\* the body of search after the filter
SearchPage(n, p, per, checks) ==
    LET total_pages == TotalPages(n, per)
        current_page == CurrentPage(p, total_pages)
        less == current_page - 1
        product == Wrapping(less) * per
        start == Wrapping(product)
        sum == start + per
        end == UMin(Wrapping(sum), n)
        wrapped == Overflows(less) \/ Overflows(product) \/ Overflows(sum)
        page_items == IF start <= end THEN Slice(MatchingApps(n), start, end)
                      ELSE <<>>
    IN IF wrapped /\ checks THEN Panic
       ELSE [games |-> page_items, total |-> n, page |-> current_page,
             total_pages |-> total_pages, wrapped |-> wrapped]

\* if query.trim().is_empty() { return SearchResults { .. } }
EmptyQueryResults ==
    [games |-> <<>>, total |-> 0, page |-> 1, total_pages |-> 1,
     wrapped |-> FALSE]

\* one call of search
Search ==
    /\ spc = "call"
    /\ sresult' = IF query_empty THEN EmptyQueryResults
                  ELSE SearchPage(matching, page, per_page, overflow_checks)
    /\ spc' = "returned"
    /\ UNCHANGED <<query_empty, matching, page, per_page, overflow_checks>>
    /\ UNCHANGED <<orch_vars, disperse_vars, lua_vars, twin_vars, caller_vars, gui_vars>>

\* the arguments of a call, the number of apps the query matches, and whether
\* the build has overflow checks (a debug build) or not (a release build)
InitSearch ==
    /\ spc = "call"
    /\ sresult = NoResult
    /\ query_empty \in BOOLEAN
    /\ matching \in IF query_empty THEN {0} ELSE 0..MaxTotal
    /\ page \in 0..MaxPage
    /\ per_page \in 1..MaxPerPage
    /\ overflow_checks \in BOOLEAN

NextSearch == Search

SearchInit ==
    InitSearch /\ ParkOrch /\ ParkDisperse /\ ParkLua /\ ParkTwin /\ ParkCaller /\ ParkGui

SpecSearch == SearchInit /\ [][NextSearch]_vars

\* ------------------------------------------------------------ type check
TypeOK ==
    /\ mode \in {"repo", "game"}
    /\ idx \in 1..(Len(order) + 1)
    /\ pc \in {"settings", "start", "loop", "zip", "save", "process", "branch",
               "tree", "mkdir", "files", "cdn", "match", "done"}
    /\ zip \in {"absent", "partial", "full"}
    /\ mirror \in 1..NumMirrors
    /\ i \in 0..Len(files_to_download)
    /\ files_written \in 0..i

\* ====================================================================
\* Claims C1..C10: the retrieval orchestrator
\* ====================================================================
\* the entry the loop is at has produced output: its archive call returned a
\* payload, or it has written at least one file
Committed == zip_content = "payload" \/ files_written > 0

\* the run was ended by a local I/O failure (LocalIOFailure of the error
\* taxonomy), which is the case of C22 and ends a run with an error by design
LocalIOFailure == result \in {Err("io"), Err("settings")}

\* the loop has started the body for repository r
Attempted(r) ==
    \E k \in DOMAIN order :
        /\ order[k] = r
        /\ k < idx \/ (k = idx /\ pc \notin {"settings", "start", "loop"}
                              /\ log # <<>>)

Min(S) == CHOOSE x \in S : \A y \in S : x <= y

\* the files of the temp directory of the entry the loop is at
TempDirFiles == {f \in files : f.dir = TempDirOf(repo_type)}

\* C1: in download_from_repo, once the entry the loop is at has produced
\* output (its archive call returned a payload, or it wrote a file), no
\* other entry is attempted and no network call is issued for another entry,
\* and the run, unless a local I/O failure ends it, terminates with true.
C1_CommitEndsRunWithTrue ==
    [][(mode = "repo" /\ Committed) =>
          /\ idx' = idx
          /\ contacted' \subseteq contacted \cup {repo}
          /\ (pc' = "done" /\ ~LocalIOFailure') => result' = Ok(TRUE)]_vars

\* C2: repositories are attempted in the order in which the caller supplied
\* them: entry j is attempted only after every entry i < j was attempted.
C2_SuppliedOrder ==
    \A j \in DOMAIN repo_info : Attempted(j) =>
        \A k \in 1..(j - 1) : Attempted(k)

\* C3: when download_file_content returns, its probes went through the
\* mirrors in declared order, none followed a probe that returned a payload,
\* and their number is the index of the first mirror that succeeded, or
\* NumMirrors when none succeeded.
C3_ProbeCount ==
    fetched # "none" =>
        LET some == {k \in DOMAIN probes : probes[k].returned = "Some"}
        IN /\ \A k \in DOMAIN probes : probes[k].mirror = Mirrors[k]
           /\ \A k \in some : k = Len(probes)
           /\ Len(probes) = IF some # {} THEN Min(some) ELSE NumMirrors

\* C4: download_file_content returns the payload of the first mirror that
\* answered with status 200; it returns empty exactly when every mirror gave a
\* miss or a transport error, and then, and only then, it has logged one
\* total-failure line naming the path.
C4_FirstPayload ==
    fetched # "none" =>
        LET ok200 == {k \in DOMAIN probes : probes[k].returned \in {"Some", "Err"}}
            path == files_to_download[i + 1]
            lines == {n \in DOMAIN log : log[n] = TotalFailure(path)}
        IN /\ ok200 # {} => (fetched = "Some" /\ content = Min(ok200))
           /\ fetched = "None" <=>
                 (Len(probes) = NumMirrors /\ ok200 = {})
           /\ Cardinality(lines) = IF fetched = "None" THEN 1 ELSE 0

C6_AllMissReturnsFalse ==
    (/\ mode = "repo"
     /\ pc = "done"
     /\ ~LocalIOFailure
     /\ \A r \in DOMAIN repo_info : ~serves[r])
    => (result = Ok(FALSE) /\ zip = "absent" /\ tempDirs = {} /\ files = {})

\* C7: when the file loop of an Enumerated entry is left, not by a local I/O
\* failure, with k files downloaded and written: if k >= 1 the run returns
\* true, the temp directory holds exactly those k files and the last line
\* logged is the count k; if k = 0 the orchestrator moves to the next entry.
C7_EntrySucceedsIffFileWritten ==
    [][(/\ mode = "repo"
        /\ pc \in {"files", "cdn", "match"}
        /\ pc' \notin {"files", "cdn", "match"}
        /\ ~LocalIOFailure')
       => IF files_written >= 1
          THEN /\ result' = Ok(TRUE)
               /\ Cardinality(TempDirFiles) = files_written
               /\ \A f \in TempDirFiles : f.complete
               /\ log'[Len(log')] = SuccessFiles(files_written)
          ELSE /\ pc' = "loop"
               /\ idx' = idx + 1]_vars

\* C8: no probe ends with an error: a body that cannot be read is a miss for
\* download_file_content, and the run never returns the error of a body read.
C8_BodyFailureIsSoftMiss ==
    /\ \A k \in DOMAIN probes : probes[k].returned # "Err"
    /\ pc = "done" => result # Err("body")

\* C9: a resolver step (revision lookup, tree listing) that does not deliver
\* its result makes the orchestrator move to the next entry.
C9_ResolverFailureSkipsEntry ==
    [][(pc = "branch" /\ pc' # "tree") \/ (pc = "tree" /\ pc' # "mkdir")
         => (pc' = "loop" /\ idx' = idx + 1 /\ result' = NoResult)]_vars

\* C10: once the archive payload is written in full, the run ends with true.
C10_SavedArchiveIsSuccess ==
    (pc = "done" /\ zip = "full") => result = Ok(TRUE)

\* ====================================================================
\* Claims C11..C12: the archive disperser
\* ====================================================================
IsOk(r) == "ok" \in DOMAIN r

\* process_downloaded_zip has returned Ok for an archive whose members are
\* a.lua, b.manifest, c.bin and d_manifest.lua
FourFileArchive ==
    /\ dpc = "returned"
    /\ IsOk(dresult)
    /\ archive_len = 4
    /\ Cardinality(walked) = 4
    /\ {f.base : f \in walked} = {"a.lua", "b.manifest", "c.bin", "d_manifest.lua"}

\* d_manifest.lua has been copied to stplug-in and to depotcache
CopiedTwice ==
    \A r \in {"stplug-in", "depotcache"} :
        \E g \in dest_files : g.root = r /\ g.base = "d_manifest.lua" /\ g.complete

\* C11 as stated: for that archive the counts are lua = 2, manifest = 1,
\* bin = 1 and d_manifest.lua is in both stplug-in and depotcache.
C11_Original ==
    FourFileArchive =>
        /\ lua_count = 2 /\ manifest_count = 1 /\ bin_count = 1
        /\ CopiedTwice

\* C11 amended: for that archive the counts are lua = 2, manifest = 2,
\* bin = 1 (b.manifest and d_manifest.lua both count as manifest) and
\* d_manifest.lua is in both stplug-in and depotcache.
C11_FourFileArchiveCounts ==
    FourFileArchive =>
        /\ lua_count = 2 /\ manifest_count = 2 /\ bin_count = 1
        /\ CopiedTwice

\* C11 witness: the archive of the four files has been dispersed, with
\* d_manifest.lua in a directory of the archive
C11_Witness ==
    /\ FourFileArchive
    /\ \E f \in walked : f.base = "d_manifest.lua" /\ f.dir = "sub"
    /\ Cardinality(dest_files) = 5

\* C12: whenever process_downloaded_zip has returned, with Ok or with an
\* error, the scratch directory it created does not exist.
C12_ScratchDeletedOnReturn ==
    dpc = "returned" => ~scratch_exists

\* ====================================================================
\* Claims C13..C15: mergeManifestIds (update_game_files, steps 3 and 4)
\* ====================================================================
\* this step is the merge of a call that returns Ok
MergeReturnsOk == upc = "merge" /\ IsOk(lresult')

\* the call of line k of the file is stale: it is a setManifestid call and
\* new_bindings holds another manifest id for its depot id
Stale(lines, k) ==
    /\ lines[k].kind = "set"
    /\ lines[k].depot \in DOMAIN new_bindings
    /\ new_bindings[lines[k].depot] # lines[k].manifest

\* the depot ids of new_bindings that no call of the file names
Unseen(lines) ==
    {d \in DOMAIN new_bindings :
        \A k \in DOMAIN lines : lines[k].kind = "set" => lines[k].depot # d}

\* C13: a merge that follows a call that returned Ok, with the same
\* newBindings and the file as that call left it, leaves the file content as
\* it is and reports updatedCount + appendedCount = 0.
C13_MergeIdempotent ==
    [][(MergeReturnsOk /\ IsOk(lresult)) =>
          /\ lua' = lua
          /\ updated_count' + appended_count' = 0]_vars

\* C13 witness: a second merge has returned Ok after a first one that wrote
\* the file
C13_Witness ==
    /\ upc = "returned" /\ ncalls = 2 /\ IsOk(lresult)
    /\ writes = 1
    /\ updated_count + appended_count = 0

\* C14: a merge that returns Ok has rewritten in place, to the canonical call
\* with the new manifest id, exactly the stale calls, has left every other
\* line as it was, and has appended, under the marker line, one call for each
\* depot id of newBindings that no call named; updatedCount and appendedCount
\* are the numbers of the two.
C14_RewriteAndAppend ==
    [][MergeReturnsOk =>
          LET old == lua.lines
              new == lua'.lines
              n == Len(old)
              tail == SubSeq(new, n + 1, Len(new))
              head == IF lua.eol \/ old = <<>> THEN <<Blank, MergeMarker>>
                      ELSE <<MergeMarker>>
              calls == SubSeq(tail, Len(head) + 1, Len(tail))
          IN /\ Len(new) >= n
             /\ \A k \in 1..n :
                   new[k] = IF Stale(old, k)
                            THEN SetCall(old[k].depot,
                                         new_bindings[old[k].depot], TRUE)
                            ELSE old[k]
             /\ updated_count' = Cardinality({k \in 1..n : Stale(old, k)})
             /\ appended_count' = Cardinality(Unseen(old))
             /\ IF Unseen(old) = {}
                THEN tail = <<>> /\ lua'.eol = lua.eol
                ELSE /\ SubSeq(tail, 1, Len(head)) = head
                     /\ Len(calls) = Cardinality(Unseen(old))
                     /\ \A d \in Unseen(old) :
                           \E k \in DOMAIN calls :
                               calls[k] = SetCall(d, new_bindings[d], TRUE)
                     /\ lua'.eol]_vars

\* C14 witness: a merge has rewritten a call and appended another
C14_Witness ==
    /\ upc = "returned" /\ ncalls = 1 /\ IsOk(lresult)
    /\ updated_count = 1 /\ appended_count = 1
    /\ lua.lines[Len(lua.lines) - 1] = MergeMarker

\* C15: the merge writes the file exactly when a call is stale or a depot
\* id is unseen, that is when updatedCount + appendedCount > 0; otherwise it
\* performs no write and the content is unchanged.
C15_WriteOnlyOnChange ==
    [][upc = "merge" =>
          LET changes == (\E k \in DOMAIN lua.lines : Stale(lua.lines, k))
                         \/ Unseen(lua.lines) # {}
          IN /\ writes' # writes => changes
             /\ IsOk(lresult') =>
                   /\ changes <=> updated_count' + appended_count' > 0
                   /\ changes <=> writes' = writes + 1
             /\ ~changes => lua' = lua]_vars

\* C15 witness: a first merge found nothing to change and returned Ok without
\* a write
C15_Witness ==
    /\ upc = "returned" /\ ncalls = 1 /\ IsOk(lresult)
    /\ updated_count + appended_count = 0
    /\ writes = 0
    /\ \E k \in DOMAIN lua.lines : lua.lines[k].kind = "set"

\* ====================================================================
\* Claims C16, C17: syncAddAppIds
\* ====================================================================
SyncReturnsOk == upc = "sync" /\ IsOk(lresult')

Mentions(line, id) ==
    line.kind = "add" /\ \E k \in DOMAIN line.ids : line.ids[k] = id
LinesMentioning(lines, id) == {k \in DOMAIN lines : Mentions(lines[k], id)}
WithoutCall(lines) == SelectSeq(lines, LAMBDA line : line.kind # "add")
Copies(lines, line) == Cardinality({k \in DOMAIN lines : lines[k] = line})
Desired == {dlc_ids_to_set[k] : k \in DOMAIN dlc_ids_to_set}

RECURSIVE IsSubsequence(_, _)
IsSubsequence(a, b) ==
    IF a = <<>> THEN TRUE
    ELSE IF b = <<>> THEN FALSE
    ELSE IF a[1] = b[1] THEN IsSubsequence(Tail(a), Tail(b))
    ELSE IsSubsequence(a, Tail(b))

\* C16, as stated: a call that returns Ok keeps every line without an
\* addappid call, in order; keeps every line that is a call with the primary
\* id; removes every line that is a call with another id, unless that id is
\* desired; and leaves exactly one addappid line for each desired id.
C16_Original ==
    [][SyncReturnsOk =>
        /\ IsSubsequence(WithoutCall(lua.lines), WithoutCall(lua'.lines))
        /\ Copies(lua'.lines, AddCall(<<main_app_id>>))
               >= Copies(lua.lines, AddCall(<<main_app_id>>))
        /\ \A a \in AppIds \ (Desired \cup {main_app_id}) :
               Copies(lua'.lines, AddCall(<<a>>)) = 0
        /\ \A d \in Desired : Cardinality(LinesMentioning(lua'.lines, d)) = 1
    ]_vars

\* the lines that stay: those without a call and those whose first call has
\* the primary id
Staying(lines) ==
    SelectSeq(lines, LAMBDA line :
        line.kind = "add" => line.ids[1] = main_app_id)
WithoutLastBlank(lines) ==
    IF lines # <<>> /\ lines[Len(lines)] = Blank THEN Front(lines) ELSE lines
DesiredBlock ==
    IF dlc_ids_to_set = <<>> THEN <<>>
    ELSE <<Blank, SyncMarker>>
         \o [k \in DOMAIN dlc_ids_to_set |-> AddCall(<<dlc_ids_to_set[k]>>)]

\* C16, amended: a call that returns Ok leaves the staying lines, in order and
\* without a last empty line, followed, when ids are desired, by an empty
\* line, the marker line and one addappid line per desired id in the order
\* given; a desired id that no staying line mentions is on exactly one line.
C16_SyncResult ==
    [][SyncReturnsOk =>
        /\ lua'.lines = WithoutLastBlank(Staying(lua.lines)) \o DesiredBlock
        /\ \A d \in Desired :
               LinesMentioning(Staying(lua.lines), d) = {}
                   => Cardinality(LinesMentioning(lua'.lines, d)) = 1
    ]_vars

\* C16 witness: the result of the call with primary id 100 and desired ids
\* 200, 300 on the file with addappid(100) and addappid(999)
C16_Witness ==
    /\ ncalls = 1
    /\ IsOk(lresult)
    /\ main_app_id = 100
    /\ dlc_ids_to_set = <<200, 300>>
    /\ lua.lines = <<AddCall(<<100>>), Blank, SyncMarker,
                     AddCall(<<200>>), AddCall(<<300>>)>>

\* C17, as stated: a second call with the same arguments that returns Ok,
\* after a call that returned Ok, leaves the file as the first call left it.
C17_SyncIdempotent ==
    [][(SyncReturnsOk /\ IsOk(lresult)) => lua' = lua]_vars

\* ====================================================================
\* Claims C18, C19: the file-by-file branch
\* ====================================================================
\* the requests of the attempt that carry a revision carry the one resolved
OneShaInUse ==
    /\ \A k \in DOMAIN probes : probes[k].sha = sha /\ sha # "none"
    /\ tree_url # NoUrl => (sha # "none" /\ tree_url = [repo |-> repo, sha |-> sha])

\* the revision is set by the lookup only, the lookup is reached from the
\* head of the repository loop only and is left by its one call, and a
\* revision once set stays until the loop moves to the next repository
OneLookup ==
    /\ (sha' # sha /\ sha' # "none") => (pc = "branch" /\ sha = "none")
    /\ (pc' = "branch") => pc = "loop"
    /\ (sha # "none") => (sha' = sha \/ (sha' = "none" /\ idx' = idx + 1))

\* C18: during one attempt on an Enumerated entry one revision is resolved,
\* by one lookup call, and is never refreshed: the tree url and every probe of
\* every file, on every mirror, carry that revision.
C18_OneRevisionPerAttempt == []OneShaInUse /\ [][OneLookup]_vars

\* C18 witness: the second file of an attempt is being fetched, a second
\* mirror has been probed for it, after the tree was listed at the revision
C18_Witness ==
    /\ i >= 1
    /\ Len(probes) >= 2
    /\ probes[1].mirror # probes[2].mirror
    /\ sha \in Shas
    /\ tree_url = [repo |-> repo, sha |-> sha]

InFileLoop(at) == at \in {"files", "cdn", "match"}
BlobsInOrder(tree) ==
    LET blobs == SelectSeq(tree, LAMBDA item : item.item_type = "blob")
    IN [k \in DOMAIN blobs |-> blobs[k].path]

\* C19, as stated: the worklist is the blobs of the listing in the order of
\* the listing; the file loop leaves it as it is and goes through it one file
\* at a time, every probe being for the file the loop is at and the loop
\* moving on only after the match on what was fetched; and a fetch that
\* yields no content is followed by the match, which moves to the next file.
C19_WorklistInOrder ==
    [][/\ (pc = "mkdir") => files_to_download' = BlobsInOrder(tree_response)
       /\ (InFileLoop(pc) /\ InFileLoop(pc')) =>
              /\ files_to_download' = files_to_download
              /\ i' \in {i, i + 1}
              /\ (i' = i + 1) => (pc = "match" /\ pc' = "files")
       /\ (pc = "cdn") =>
              \A k \in DOMAIN probes' :
                  probes'[k].path = files_to_download[i + 1]
       /\ (pc = "cdn" /\ fetched' \in {"None", "Err"}) => pc' = "match"
       /\ (pc = "match" /\ fetched # "Some") => (pc' = "files" /\ i' = i + 1)
    ]_vars

\* ====================================================================
\* Claim C20: Encrypted and Decrypted entries
\* ====================================================================
\* the files of a run by their path relative to the temp directory
RelativeFiles(s) ==
    {[path |-> f.path, content |-> f.content, complete |-> f.complete] :
        f \in s.files}
EndedByLocalIO(s) == s.result = Err("io")

RuleOf(root, name) ==
    CASE root = "stplug-in" -> ExtensionOf(name) = "lua"
      [] root = "StatsExport" -> ExtensionOf(name) = "bin"
      [] root = "depotcache" ->
             name \in {"b.manifest", "d_manifest.lua", "E_MANIFEST.BIN"}
CountOf(root) ==
    CASE root = "stplug-in" -> lua_count
      [] root = "StatsExport" -> bin_count
      [] root = "depotcache" -> manifest_count
CountOfNext(root) ==
    CASE root = "stplug-in" -> lua_count'
      [] root = "StatsExport" -> bin_count'
      [] root = "depotcache" -> manifest_count'
Copied(f, root) ==
    [root |-> root, base |-> f.base, from |-> f.dir, complete |-> TRUE]

\* C21: the walk step of a file puts into the destinations only copies of
\* that file, only into directories whose rule the file matches, at most two
\* of them; the count of a rule goes up by one exactly when the copy of that
\* rule was made; and when the step does not fail, the copy of every rule the
\* file matches was made, the extension rule and the name rule both applying.
C21_IndependentRules ==
    [][(dpc = "walk" /\ walked' # walked) =>
          \E f \in walked' \ walked :
             LET new == dest_files' \ dest_files
             IN /\ walked' = walked \cup {f}
                /\ \A g \in new :
                      /\ g.base = f.base /\ g.from = f.dir
                      /\ RuleOf(g.root, f.base)
                /\ Cardinality(new) <= 2
                /\ \A r \in RootSet :
                      CountOfNext(r) =
                          CountOf(r) + (IF Copied(f, r) \in new THEN 1 ELSE 0)
                /\ (dpc' = "walk") =>
                      \A r \in RootSet :
                          RuleOf(r, f.base) <=> Copied(f, r) \in new
    ]_vars

\* C21 witness: the walk has returned Ok after d_manifest.lua was copied twice
\* (by its extension and by its name), a.lua once and readme.txt not at all
C21_Witness ==
    /\ dpc = "returned" /\ dresult = Ok(Unit)
    /\ \E d \in ArchiveDirs :
          /\ [dir |-> d, base |-> "d_manifest.lua", complete |-> TRUE] \in walked
          /\ Copied([dir |-> d, base |-> "d_manifest.lua"], "stplug-in") \in dest_files
          /\ Copied([dir |-> d, base |-> "d_manifest.lua"], "depotcache") \in dest_files
    /\ \E f \in walked : f.base = "readme.txt"
    /\ \E f \in walked : f.base = "a.lua"
    /\ \A g \in dest_files : g.base # "readme.txt"
    /\ lua_count = 2 /\ manifest_count = 1 /\ bin_count = 0

\* ====================================================================
\* Claims C22..C24: local I/O failures, the false result, the dispersal call
\* ====================================================================
EndsWithIoError == pc' = "done" /\ result' = Err("io")

\* C22: each local operation of the run (creating the output root, creating
\* and writing the archive file, creating the temp directory, creating and
\* writing an enumerated file) either has its effect or ends the run, in the
\* same step, with an error that is neither true nor false, without a network
\* call and without moving to another entry; and a run that has ended takes
\* no further step.
C22_LocalIoFailureTerminates ==
    [][/\ (pc = "start") => (rootExists' \/ EndsWithIoError)
       /\ (pc = "save") => (zip' = "full" \/ EndsWithIoError)
       /\ (pc = "mkdir") => (TempDirOf(repo_type) \in tempDirs' \/ EndsWithIoError)
       /\ (pc = "match" /\ fetched = "Some") =>
              \/ [dir |-> TempDirOf(repo_type), path |-> files_to_download[i + 1],
                  complete |-> TRUE] \in files'
              \/ EndsWithIoError
       /\ (result' = Err("io")) =>
              /\ pc' = "done"
              /\ idx' = idx
              /\ contacted' = contacted
              /\ result' \notin {Ok(TRUE), Ok(FALSE)}
       /\ (pc = "done") => UNCHANGED vars
    ]_vars

\* C22 witness: writing the archive of the first of two entries failed; the
\* run has ended with the error and the second entry was not contacted
C22_Witness ==
    /\ pc = "done"
    /\ result = Err("io")
    /\ zip = "partial"
    /\ Len(order) = 2
    /\ idx = 1
    /\ contacted = {order[1]}

\* C23: when the run has returned false, no file was written under the output
\* root: the archive file does not exist and no temp directory holds a file,
\* complete or not.
C23_FalseMeansNothingWritten ==
    (pc = "done" /\ result = Ok(FALSE)) => (zip = "absent" /\ files = {})

\* C23 witness: the run has returned false after an Enumerated entry was
\* taken as far as its temp directory and an Archive entry was asked for
C23_Witness ==
    /\ pc = "done"
    /\ result = Ok(FALSE)
    /\ tempDirs # {}
    /\ Len(order) = 2
    /\ contacted = {1, 2}
    /\ \E r \in DOMAIN repo_info : repo_info[r] = "Branch"

\* the download_from_repo call ended with the archive of the entry the loop
\* was at saved
ArchiveRetrieved ==
    /\ runA.pc = "done"
    /\ runA.result = Ok(TRUE)
    /\ runA.idx \in DOMAIN runA.repo_info
    /\ RunType(runA) = "Branch"

\* C24, as stated: when the caller is through with a run that ended with a
\* successful Archive retrieval, process_downloaded_zip was called exactly
\* once.
C24_DispersedOnce ==
    (cpc = "exit" /\ ArchiveRetrieved) => dispersals = 1

\* the call is before the end of the extraction loop
Extracting ==
    dpc \in {"scratch", "open"} \/ (dpc = "extract" /\ extract_i < archive_len)

\* C25, as stated: until every member of the archive has been extracted, no
\* step creates a target directory or puts a file into one; a call that fails
\* while opening or extracting leaves the three directories as they were.
C25_NoTargetTouchedWhileExtracting ==
    [][Extracting => (dest_dirs' = dest_dirs /\ dest_files' = dest_files)]_vars

\* a target directory holds fewer files than its count says
FewerFilesThanCounted(root) ==
    Cardinality({g \in dest_files : g.root = root /\ g.complete}) < CountOf(root)

\* C26: a routed file is placed under its base name, whatever its directory
\* in the archive: after the walk step of a file, each target directory it
\* was copied to holds one file of that base name, the copy of the file just
\* walked, and the count of that directory went up by one whether or not a
\* file of that name was there before.
C26_BaseNameOnly ==
    [][(dpc = "walk" /\ walked' # walked) =>
          \E f \in walked' \ walked :
             \A r \in RootSet :
                Copied(f, r) \in dest_files' =>
                   /\ {g \in dest_files' : g.root = r /\ g.base = f.base}
                          = {Copied(f, r)}
                   /\ CountOfNext(r) = CountOf(r) + 1
    ]_vars

\* C26 witness: a.lua and sub/a.lua were both routed; stplug-in holds one
\* a.lua and lua_count is 2
C26_Witness ==
    /\ dpc = "returned" /\ dresult = Ok(Unit)
    /\ \E f, g \in walked : f.base = "a.lua" /\ g.base = "a.lua" /\ f.dir # g.dir
    /\ Cardinality({g \in dest_files : g.root = "stplug-in"}) = 1
    /\ lua_count = 2
    /\ FewerFilesThanCounted("stplug-in")

\* ====================================================================
\* Claims C27, C28: what the update leaves alone
\* ====================================================================
\* C27: a merge that returns Ok leaves every line that is not a stale call
\* as it was and where it was, so that what it appends comes after all of
\* them; leaves the end of the file as it was when it appends nothing; and
\* rewrites the stale calls of one depot id all to the manifest id that
\* newBindings holds for it.
C27_NothingElseChanges ==
    [][MergeReturnsOk =>
          LET old == lua.lines
              new == lua'.lines
          IN /\ Len(new) >= Len(old)
             /\ \A k \in DOMAIN old : ~Stale(old, k) => new[k] = old[k]
             /\ (Len(new) = Len(old)) => lua'.eol = lua.eol
             /\ \A j, k \in DOMAIN old :
                   (Stale(old, j) /\ Stale(old, k)
                        /\ old[j].depot = old[k].depot) =>
                      /\ new[j].kind = "set" /\ new[j].depot = old[j].depot
                      /\ new[j].manifest = new_bindings[old[j].depot]
                      /\ new[j].manifest = new[k].manifest
    ]_vars

\* C27 witness: a merge has rewritten two calls of one depot id, one of them
\* spelled with other spacing, to the same manifest id
C27_Witness ==
    /\ upc = "returned" /\ ncalls = 1 /\ IsOk(lresult)
    /\ updated_count = 2
    /\ Len(lua.lines) >= 2
    /\ lua.lines[1].kind = "set" /\ lua.lines[2].kind = "set"
    /\ lua.lines[1].depot = lua.lines[2].depot
    /\ lua.lines[1].manifest = new_bindings[lua.lines[1].depot]
    /\ lua.lines[2] = lua.lines[1]

\* the errors of the steps that come before the local file is read
EarlyErrors ==
    {Err("not_found"), Err("all_failed"), Err("archive"), Err("no_manifest")}
BeforeMerge == upc \in {"find", "download", "extract"}

\* C28: the steps of the update up to the extraction of the manifest ids
\* leave the local file as it is and do not write it; the errors "no local
\* file", "no repository delivered", "archive not readable" and "no manifest
\* member" are returned from these steps only, the first of them from the
\* step that comes before the download.
C28_EarlyErrorsLeaveFile ==
    [][/\ BeforeMerge => (lua' = lua /\ writes' = writes)
       /\ (upc # "returned" /\ upc' = "returned" /\ lresult' \in EarlyErrors)
              => BeforeMerge
       /\ (upc # "returned" /\ upc' = "returned" /\ lresult' = Err("not_found"))
              => upc = "find"
       /\ (upc' = "download") => upc = "find"
       /\ (upc' = "find") => upc = "returned"
    ]_vars

\* C28 witness: the update has returned "no manifest member" on a file with
\* content, without a write
C28_Witness ==
    /\ upc = "returned"
    /\ ncalls = 1
    /\ lresult = Err("no_manifest")
    /\ lua.lines # <<>>
    /\ writes = 0

\* ====================================================================
\* Claim C29: the GUI threads
\* ====================================================================
Retrieving == {t \in Spawned : tpc[t] = "retrieving"}

\* C29: a download thread holds the mutex for as long as it is in
\* download_from_repo, so at most one thread is in a retrieval; while one is,
\* no other thread is in the scope of a guard and no lock() call of another
\* thread returns; and the holder of the mutex is never a thread that waits
\* or has returned, so some thread can always take a step that ends in the
\* release of the mutex.
C29_RetrievalHoldsMutex ==
    /\ [](/\ \A t \in Threads :
                (tpc[t] \in GuardStates) <=> (holder = t)
          /\ Cardinality(Retrieving) <= 1
          /\ (holder # NoThread) => tpc[holder] \in GuardStates)
    /\ [][(Retrieving # {}) =>
             \/ holder' = holder
             \/ /\ tpc[holder] = "retrieving"
                /\ tpc'[holder] # "retrieving"
                /\ holder' = NoThread]_vars

\* C29 witness: a download is running; the UI thread is at the first lock of
\* a second start_download and a fetch_game_name thread is at its lock
C29_Witness ==
    /\ Retrieving # {}
    /\ tpc[UiThread] = "want_sd_read"
    /\ \E t \in Spawned : tpc[t] = "want_fetch"
    /\ holder \in Retrieving

\* ====================================================================
\* Claim C30: the page window of the search
\* ====================================================================
\* C30, as stated: for every query, every page >= 0 and every per_page >= 1
\* a call returns, without an arithmetic result that does not fit a usize, a
\* page p with 1 <= p <= max(1, total_pages), total_pages the ceiling of
\* total / per_page, and as games the matches at the positions
\* (p - 1) * per_page + 1 to min(p * per_page, total); no games when nothing
\* matches.
Ceiling(n, per) ==
    CHOOSE c \in 0..n : c * per >= n /\ (c = 0 \/ (c - 1) * per < n)

C30_PageWindow ==
    (spc = "returned") =>
        /\ sresult # Panic
        /\ ~sresult.wrapped
        /\ 1 <= sresult.page
        /\ sresult.page <= UMax(1, Ceiling(matching, per_page))
        /\ sresult.games =
               [k \in 1..(UMin(sresult.page * per_page, matching)
                              - (sresult.page - 1) * per_page) |->
                   (sresult.page - 1) * per_page + k]
        /\ (matching = 0) => sresult.games = <<>>

====
